---------------------------- MODULE Spec2Model ----------------------------
(***************************************************************************)
(* A model of the my_feast feature store: the offline store's historical   *)
(* (point-in-time) join, the in-memory online store and its lock, and the  *)
(* way the two are used.                                                   *)
(*                                                                         *)
(* These specifications share this module:                                 *)
(*   SpecHist  one get_historical_features call on a bounded source file   *)
(*             and entity frame;                                           *)
(*   Spec      the online store driven by one caller, one whole call per   *)
(*             step;                                                       *)
(*   SpecConc  the online store driven by several threads, one statement   *)
(*             per step, under the store's lock;                           *)
(*   SpecMat   materialization: the sources pulled through the offline     *)
(*             store into the online store;                                *)
(*   SpecQuery one get_historical_features call over two feature views,    *)
(*             through the feature store or the offline store;             *)
(*   SpecService  the feature references of a feature service and its      *)
(*             validation;                                                 *)
(*   SpecLive  SpecConc with teardown and clear, under weak fairness of    *)
(*             each thread's steps;                                        *)
(*   SpecBatch offline_write_batch calls, their chunk files and retries;   *)
(*   SpecViews the online store with two views on the same entity;         *)
(*   SpecKey   the online store of a two-key view with int and str keys;   *)
(*   SpecRuns  a sequence of materialize runs over one source file.        *)
(***************************************************************************)
EXTENDS Integers, Sequences, FiniteSets, TLC

VARIABLES
    \* ---- SpecHist: the offline store
    source,        \* the rows FileSource.read() returns for the view
    entity_df,     \* the caller's entity frame
    feature_refs,  \* the feature references of the call
    hist,          \* outcome of get_historical_features
    sources,       \* the files on disk: view name -> the rows of the view's source
                   \* file (SpecMat, SpecQuery); path -> the rows written (SpecBatch)
    \* ---- Spec / SpecConc: MemoryOnlineStore
    features,      \* self._features:   view name -> entity key -> feature -> value
    timestamps,    \* self._timestamps: view name -> entity key -> write timestamp
    clock,         \* what datetime.now() returns
    op,            \* Spec: the last completed call and what it returned
    written,       \* Spec: per view, the join-key values written and their last row;
                   \* SpecRuns: the list of the materialize runs made
    nops,          \* Spec: number of calls made
    \* ---- SpecConc only
    lock,          \* owner of self._lock, or NoThread
    pc,            \* per thread: the statement it is at
    call,          \* per thread: the arguments and locals of its call
    stable         \* the store as it was when the lock was last released

histVars == <<source, entity_df, feature_refs, hist, sources>>
storeVars == <<features, timestamps>>
seqVars == <<clock, op, written, nops>>
concVars == <<lock, pc, call, stable>>
vars == <<histVars, storeVars, seqVars, concVars>>

-----------------------------------------------------------------------------
(* Bounds of the model *)

MaxSrcRows == 2    \* rows in the source file
MaxEntRows == 2    \* rows in an entity frame / entity-row list
MaxKey == 2        \* join-key values are 1..MaxKey
MaxVal == 2        \* feature values are 1..MaxVal
MaxTs == 3         \* event timestamps are 1..MaxTs
MaxRows == 2       \* rows in a frame written to driver_stats
MaxPairRows == 1   \* rows in a frame written to, or entity rows read from, pair_stats
MaxTime == 2       \* the clock and the timestamp arguments are 1..MaxTime
MaxOps == 3        \* calls made on the online store by the one caller
MaxCalls == 3      \* calls made by the threads of SpecConc
MaxMatCalls == 2   \* calls made in SpecMat
MaxNameLen == 3    \* characters in a view or feature name of a service member
MaxMembers == 2    \* members of a feature service
ChunkSize == 2     \* chunk_size of offline_write_batch (10000 in the code), scaled down
MaxBatchRows == 5  \* rows in a batch
TicksPerSecond == 2 \* readings of the clock within one second
MaxTicks == 4      \* the clock of SpecBatch is 1..MaxTicks
MaxBatchCalls == 2 \* calls made in SpecBatch
\* the materialize runs of one behaviour
MaxRuns == 3

-----------------------------------------------------------------------------
(* Values and frames *)

\* A cell value with its Python/numpy type.  Floats are the whole floats n.0.
IntV(k) == [t |-> "int", n |-> k]
FloatV(k) == [t |-> "float", n |-> k]
TimeV(k) == [t |-> "datetime", n |-> k]
\* a str value: the k-th string of StrTable
StrV(k) == [t |-> "str", n |-> k]
\* None / NaN
Null == [t |-> "null", n |-> 0]

Numeric == {"int", "float"}

\* Python's == on two cell values: numbers compare by value across int and
\* float; a null equals nothing.
PyEq(a, b) ==
    /\ a.t # "null" /\ b.t # "null"
    /\ a.n = b.n
    /\ \/ a.t = b.t
       \/ (a.t \in Numeric /\ b.t \in Numeric)

Range(s) == {s[i] : i \in DOMAIN s}

RECURSIVE SeqsUpTo(_, _)
\* all sequences over S of length 0..n
SeqsUpTo(S, n) ==
    IF n = 0 THEN {<<>>}
    ELSE LET shorter == SeqsUpTo(S, n - 1)
         IN shorter \cup {Append(s, x) : s \in {q \in shorter : Len(q) = n - 1}, x \in S}

\* A pandas DataFrame: its column names in order, and its rows, each with its
\* index label (idx) and its cells (c: column name -> value).
Frame(cols, rows) == [cols |-> cols, rows |-> rows]
Empty(df) == Len(df.rows) = 0 \/ Len(df.cols) = 0
HasCol(df, col) == col \in Range(df.cols)

\* pd.DataFrame(list of dicts): the columns are the keys in order of first
\* appearance, a key missing from a dict reads as NaN, the index is 0..n-1.
RECURSIVE UnionCols(_, _)
UnionCols(dicts, acc) ==
    IF dicts = <<>> THEN acc
    ELSE LET d == Head(dicts)
             new == SelectSeq(d.order, LAMBDA col : col \notin Range(acc))
         IN UnionCols(Tail(dicts), acc \o new)

DataFrameOf(dicts) ==
    LET cols == UnionCols(dicts, <<>>)
    IN Frame(cols,
             [i \in DOMAIN dicts |->
                [idx |-> i - 1,
                 c |-> [col \in Range(cols) |->
                          IF col \in DOMAIN dicts[i].c THEN dicts[i].c[col] ELSE Null]]])


\* A Python dict with its insertion order: order is the keys, c the mapping.
Dict(order, c) == [order |-> order, c |-> c]
DictSet(d, k, v) ==
    Dict(IF k \in Range(d.order) THEN d.order ELSE Append(d.order, k),
         [x \in DOMAIN d.c \cup {k} |-> IF x = k THEN v ELSE d.c[x]])

\* Series.to_dict() / dict(row) of a frame row
RowDict(df, r) == Dict(df.cols, r.c)

\* all orders in which the elements of a finite set can be listed
Perms(S) == {s \in [1..Cardinality(S) -> S] : Range(s) = S}

RECURSIVE Flatten(_)
Flatten(ss) == IF ss = <<>> THEN <<>> ELSE Head(ss) \o Flatten(Tail(ss))

Reindex(rows) == [i \in DOMAIN rows |-> [idx |-> i - 1, c |-> rows[i].c]]

-----------------------------------------------------------------------------
(* Feature views *)

\* FeatureView.get_feature_names
GetFeatureNames(fv) == fv.features

\* FeatureView.get_join_keys: list(set(...)) of the entities' join keys.  The
\* order of a list made from a set is not fixed by the program, so this is the
\* set of lists it can return.
GetJoinKeys(fv) ==
    Perms(UNION {Range(fv.entities[i].join_keys) : i \in DOMAIN fv.entities})

JoinKeySet(fv) == UNION {Range(fv.entities[i].join_keys) : i \in DOMAIN fv.entities}

\* The view the historical queries are made on (src/test_my_feast.py's view).
DriverStats ==
    [name |-> "driver_stats",
     entities |-> <<[name |-> "driver_id", join_keys |-> <<"driver_id">>]>>,
     features |-> <<"conv_rate", "acc_rate">>,
     timestamp_field |-> "event_timestamp",
     online |-> TRUE]

\* "" stands for timestamp_field = None (falsy in Python, like None)
NoField == ""

-----------------------------------------------------------------------------
(* OfflineStore: get_historical_features *)

Ok(df, picked) == [status |-> "ok", df |-> df, picked |-> picked]
Raised(kind) == [status |-> kind, df |-> Frame(<<>>, <<>>), picked |-> <<>>]

\* a validate_entity_df that lets every frame pass
AnyFrame(edf) == TRUE

\* OfflineStore.validate_entity_df: raises on an empty frame
ValidateEntityDf(edf) == ~Empty(edf)

\* OfflineStore.validate_feature_views: every reference names one of the views
\* and a feature of it
ValidateFeatureViews(views, refs) ==
    /\ \A i \in DOMAIN refs :
          \E j \in DOMAIN views : views[j].name = refs[i].feature_view_name
    /\ \A i \in DOMAIN refs :
          \A j \in DOMAIN views :
             (views[j].name = refs[i].feature_view_name
              /\ \A k \in 1..(j - 1) : views[k].name # refs[i].feature_view_name)
             => refs[i].feature_name \in Range(GetFeatureNames(views[j]))

\* the fv_refs dict of perform_point_in_time_join: the feature names asked of
\* one view, in the order of the references
RefsOf(refs, name) ==
    LET mine == SelectSeq(refs, LAMBDA r : r.feature_view_name = name)
    IN [i \in DOMAIN mine |-> mine[i].feature_name]

\* OfflineStore._get_feature_view_data: the whole source, cut down to the rows
\* whose join-key values occur in the entity frame (each key on its own)
GetFeatureViewData(src, join_keys, edf) ==
    LET shared == {k \in Range(join_keys) : HasCol(edf, k) /\ HasCol(src, k)}
        keep(r) == \A k \in shared :
                      \E i \in DOMAIN edf.rows : PyEq(edf.rows[i].c[k], r.c[k])
    IN Frame(src.cols, SelectSeq(src.rows, keep))

\* df[columns]: the named columns only, index labels kept
Project(df, cols) ==
    Frame(cols, [i \in DOMAIN df.rows |->
                    [idx |-> df.rows[i].idx,
                     c |-> [col \in Range(cols) |-> df.rows[i].c[col]]]])

\* sort_values(field).tail(1): a row of the greatest field value; the stable
\* order keeps the last of several such rows
LastMax(rows, field) ==
    LET top == {i \in DOMAIN rows :
                  \A j \in DOMAIN rows : rows[j].c[field].n <= rows[i].c[field].n}
        last == CHOOSE i \in top : \A j \in top : j <= i
    IN rows[last]

\* ParquetOfflineStore._point_in_time_join_with_timestamp, the body of the loop
\* up to latest_features: the rows of feature_df for this entity row, cut to
\* those at or before its timestamp when feature_df has the timestamp column,
\* and then the last one.  Returns <<>> or a one-row sequence.
LatestFeatures(entity_row, feature_df, join_keys, timestamp_field) ==
    LET keyMatch(r) == \A k \in Range(join_keys) :
                          HasCol(feature_df, k) => PyEq(r.c[k], entity_row.c[k])
        byKey == SelectSeq(feature_df.rows, keyMatch)
        asOf(r) == r.c[timestamp_field].n <= entity_row.c[timestamp_field].n
        byTime == IF timestamp_field \in DOMAIN entity_row.c
                     /\ HasCol(feature_df, timestamp_field)
                  THEN SelectSeq(byKey, asOf)
                  ELSE byKey
    IN IF byTime = <<>> THEN <<>>
       ELSE IF HasCol(feature_df, timestamp_field)
            THEN <<LastMax(byTime, timestamp_field)>>
            ELSE <<byTime[Len(byTime)]>>

RECURSIVE CopyCols(_, _, _, _, _)
\* for col in latest_features.columns: if col not in join_keys and
\* col != timestamp_field: result_row[col] = latest_features[col].iloc[0]
CopyCols(d, cols, latest, join_keys, timestamp_field) ==
    IF cols = <<>> THEN d
    ELSE LET col == Head(cols)
             d2 == IF col \notin Range(join_keys) /\ col # timestamp_field
                   THEN DictSet(d, col, latest.c[col])
                   ELSE d
         IN CopyCols(d2, Tail(cols), latest, join_keys, timestamp_field)

\* ParquetOfflineStore._point_in_time_join_with_timestamp.  picked[i] is the
\* index label of the source row whose values entity row i received, -1 if none.
PointInTimeJoin(edf, feature_df, join_keys, timestamp_field) ==
    LET latest(i) == LatestFeatures(edf.rows[i], feature_df, join_keys, timestamp_field)
        result_row(i) ==
            IF latest(i) # <<>>
            THEN CopyCols(RowDict(edf, edf.rows[i]), feature_df.cols,
                          latest(i)[1], join_keys, timestamp_field)
            ELSE RowDict(edf, edf.rows[i])
    IN Ok(DataFrameOf([i \in DOMAIN edf.rows |-> result_row(i)]),
          [i \in DOMAIN edf.rows |-> IF latest(i) # <<>> THEN latest(i)[1].idx ELSE -1])

\* entity_df.merge(feature_df, on=join_keys, how="left"): every left row with
\* each right row of equal keys, or once with nulls when there is none
MergeLeft(left, right, join_keys) ==
    LET extra == SelectSeq(right.cols, LAMBDA col : col \notin Range(join_keys))
        cols == left.cols \o extra
        matches(l) == SelectSeq(right.rows,
                         LAMBDA r : \A k \in Range(join_keys) : PyEq(l.c[k], r.c[k]))
        joined(l, r) == [idx |-> 0,
                         c |-> [col \in Range(cols) |->
                                  IF col \in Range(left.cols) THEN l.c[col] ELSE r.c[col]]]
        alone(l) == [idx |-> 0,
                     c |-> [col \in Range(cols) |->
                              IF col \in Range(left.cols) THEN l.c[col] ELSE Null]]
        rowsFor(l) == IF matches(l) = <<>> THEN <<alone(l)>>
                      ELSE [j \in DOMAIN matches(l) |-> joined(l, matches(l)[j])]
    IN Frame(cols, Reindex(Flatten([i \in DOMAIN left.rows |-> rowsFor(left.rows[i])])))

\* OfflineStore._join_feature_view
JoinFeatureView(edf, feature_df, fv, join_keys, names) ==
    IF \E k \in Range(join_keys) : ~HasCol(edf, k) \/ ~HasCol(feature_df, k)
    THEN Raised("ValueError")
    ELSE LET columns_to_select ==
                 SelectSeq(join_keys \o names, LAMBDA col : HasCol(feature_df, col))
             selected == Project(feature_df, columns_to_select)
         IN IF fv.timestamp_field # NoField /\ HasCol(edf, fv.timestamp_field)
            THEN PointInTimeJoin(edf, selected, join_keys, fv.timestamp_field)
            ELSE Ok(MergeLeft(edf, selected, join_keys), <<>>)

\* OfflineStore.perform_point_in_time_join for one view: its source is read and
\* cut down, and joined unless nothing is left of it
JoinOneView(result_df, edf, fv, src, join_keys, refs) ==
    LET names == RefsOf(refs, fv.name)
        fv_df == GetFeatureViewData(src, join_keys, edf)
    IN IF names = <<>> \/ Empty(fv_df)
       THEN Ok(result_df, <<>>)
       ELSE JoinFeatureView(result_df, fv_df, fv, join_keys, names)

\* ParquetOfflineStore.get_historical_features on one feature view
GetHistoricalFeatures(edf, fv, src, join_keys, refs) ==
    IF ~ValidateEntityDf(edf) THEN Raised("ValueError")
    ELSE IF ~ValidateFeatureViews(<<fv>>, refs) THEN Raised("ValueError")
    ELSE JoinOneView(edf, edf, fv, src, join_keys, refs)

-----------------------------------------------------------------------------
(* SpecHist: one historical query *)

SourceCols == <<"driver_id", "conv_rate", "acc_rate", "event_timestamp">>

\* the rows a source file can hold, within the bounds
SourceCells ==
    {[c \in Range(SourceCols) |->
        CASE c = "driver_id" -> IntV(k)
          [] c = "conv_rate" -> FloatV(x)
          [] c = "acc_rate" -> FloatV(x + MaxVal)
          [] OTHER -> TimeV(t)] : k \in 1..MaxKey, x \in 1..MaxVal, t \in 1..MaxTs}

\* pd.read_parquet: the rows in file order under a RangeIndex
FrameOfCells(cols, cells) ==
    Frame(cols, [i \in DOMAIN cells |-> [idx |-> i - 1, c |-> cells[i]]])

Sources == {FrameOfCells(SourceCols, cells) : cells \in SeqsUpTo(SourceCells, MaxSrcRows)}

\* entity frames: with an as-of timestamp column (possibly without rows), or
\* with the join key only
EntityFrames ==
    {FrameOfCells(<<"driver_id", "event_timestamp">>, cells) :
        cells \in SeqsUpTo({[c \in {"driver_id", "event_timestamp"} |->
                               IF c = "driver_id" THEN IntV(k) ELSE TimeV(t)] :
                             k \in 1..MaxKey, t \in 1..MaxTs}, MaxEntRows)}
    \cup
    {FrameOfCells(<<"driver_id">>, cells) :
        cells \in SeqsUpTo({[c \in {"driver_id"} |-> IntV(k)] : k \in 1..MaxKey},
                           MaxEntRows) \ {<<>>}}

Ref(view, feature) == [feature_view_name |-> view, feature_name |-> feature]

\* the feature references a caller may pass: one or both features, either order
RefLists ==
    {<<Ref("driver_stats", "conv_rate")>>,
     <<Ref("driver_stats", "acc_rate")>>,
     <<Ref("driver_stats", "conv_rate"), Ref("driver_stats", "acc_rate")>>,
     <<Ref("driver_stats", "acc_rate"), Ref("driver_stats", "conv_rate")>>}

NotCalled == [status |-> "none", df |-> Frame(<<>>, <<>>), picked |-> <<>>]

NoThread == "none"
Threads == {"t1", "t2"}

\* MemoryOnlineStore.__init__: both dicts empty, the lock free
StoreInit ==
    /\ features = <<>>
    /\ timestamps = <<>>

IdleSeq ==
    /\ clock = 1
    /\ op = [kind |-> "none"]
    /\ written = <<>>
    /\ nops = 0

IdleConc ==
    /\ lock = NoThread
    /\ pc = [t \in Threads |-> "idle"]
    /\ call = [t \in Threads |-> [kind |-> "none"]]
    /\ stable = [features |-> <<>>, timestamps |-> <<>>]

IdleHist ==
    /\ source = Frame(SourceCols, <<>>)
    /\ entity_df = Frame(<<"driver_id">>, <<>>)
    /\ feature_refs = <<>>
    /\ hist = NotCalled
    /\ sources = <<>>

HistInit ==
    /\ source \in Sources
    /\ entity_df \in EntityFrames
    /\ feature_refs \in RefLists
    /\ hist = NotCalled
    /\ sources = <<>>
    /\ StoreInit /\ IdleSeq /\ IdleConc

\* FeatureStore.get_historical_features -> ParquetOfflineStore.get_historical_features
HistQuery ==
    /\ hist.status = "none"
    /\ \E join_keys \in GetJoinKeys(DriverStats) :
          hist' = GetHistoricalFeatures(entity_df, DriverStats, source, join_keys, feature_refs)
    /\ UNCHANGED <<source, entity_df, feature_refs, sources, storeVars, seqVars, concVars>>

HistNext == HistQuery

SpecHist == HistInit /\ [][HistNext]_vars

-----------------------------------------------------------------------------
(* Claims about the historical join *)

AsOfField == DriverStats.timestamp_field

\* the call returned, and the entity frame carried an as-of timestamp
HistAnswered == hist.status = "ok" /\ HasCol(entity_df, AsOfField)

\* the source rows of entity row i's join key at or before its as-of timestamp
Matching(i) ==
    {j \in DOMAIN source.rows :
        /\ PyEq(source.rows[j].c["driver_id"], entity_df.rows[i].c["driver_id"])
        /\ source.rows[j].c[AsOfField].n <= entity_df.rows[i].c[AsOfField].n}

Requested == Range(RefsOf(feature_refs, DriverStats.name))

\* C1: no look-ahead.  The source row whose values an entity row received has
\* a timestamp at or before the entity row's as-of timestamp.
C1_NoLookAhead ==
    HistAnswered =>
        \A i \in DOMAIN hist.picked :
            hist.picked[i] >= 0 =>
                source.rows[hist.picked[i] + 1].c[AsOfField].n
                    <= entity_df.rows[i].c[AsOfField].n

\* C2: as-of selection.  An entity row with matching source rows carries, for
\* every requested feature, the value of a matching row of greatest timestamp.
C2_AsOfSelection ==
    HistAnswered =>
        \A i \in DOMAIN entity_df.rows :
            Matching(i) # {} =>
                \E j \in Matching(i) :
                    /\ \A k \in Matching(i) :
                          source.rows[k].c[AsOfField].n <= source.rows[j].c[AsOfField].n
                    /\ \A f \in Requested :
                          /\ HasCol(hist.df, f)
                          /\ hist.df.rows[i].c[f] = source.rows[j].c[f]

\* C3: an entity row without a matching source row has every requested
\* feature as a column of the result, holding null.
C3_NullWhenNoMatch ==
    HistAnswered =>
        \A i \in DOMAIN entity_df.rows :
            Matching(i) = {} =>
                \A f \in Requested :
                    /\ HasCol(hist.df, f)
                    /\ hist.df.rows[i].c[f] = Null

-----------------------------------------------------------------------------
(* MemoryOnlineStore *)

\* Optional arguments: None, or a value
None == [some |-> FALSE]
Some(x) == [some |-> TRUE, v |-> x]

\* A view with two join keys and no timestamp field, beside DriverStats
PairStats ==
    [name |-> "pair_stats",
     entities |-> <<[name |-> "a", join_keys |-> <<"a">>],
                    [name |-> "b", join_keys |-> <<"b">>]>>,
     features |-> <<"f1", "f2">>,
     timestamp_field |-> NoField,
     online |-> TRUE]

OnlineViews == {DriverStats, PairStats}

\* Strings are sequences of characters; a column name counts as one character.
Digits == <<"0", "1", "2", "3", "4", "5", "6", "7", "8", "9">>

RECURSIVE Decimal(_)
\* str(n) of a natural number
Decimal(n) ==
    IF n < 10 THEN <<Digits[n + 1]>>
    ELSE Decimal(n \div 10) \o <<Digits[(n % 10) + 1]>>

\* the str values written as join keys: "1" and "1|b=1"
StrTable == << <<"1">>, <<"1", "|", "b", "=", "1">> >>

\* f"{value}": an int prints as its digits, the float n.0 as "n.0", a str
\* as itself
PyStr(v) ==
    CASE v.t = "int" -> Decimal(v.n)
      [] v.t = "str" -> StrTable[v.n]
      [] v.t = "float" -> Decimal(v.n) \o <<".", "0">>
      [] v.t = "datetime" -> <<"t">> \o Decimal(v.n)
      [] OTHER -> <<"N", "o", "n", "e">>

\* Python's order on the column names used here
NameOrder == <<"a", "b", "driver_id">>
NameRank(name) == CHOOSE i \in DOMAIN NameOrder : NameOrder[i] = name

\* sorted(join_keys)
Sorted(join_keys) ==
    CHOOSE s \in Perms(Range(join_keys)) :
        \A i, j \in DOMAIN s : i < j => NameRank(s[i]) < NameRank(s[j])

RECURSIVE JoinWith(_, _)
\* sep.join(parts)
JoinWith(sep, parts) ==
    IF parts = <<>> THEN <<>>
    ELSE IF Len(parts) = 1 THEN parts[1]
    ELSE parts[1] \o <<sep>> \o JoinWith(sep, Tail(parts))

\* the join keys in the order the caller lists them
KeyOrderAsGiven(join_keys) == join_keys

\* the list of join keys the key is built over, as the code orders it
KeyOrder(join_keys) == Sorted(join_keys)

\* MemoryOnlineStore._create_entity_key
CreateEntityKey(row, join_keys) ==
    LET order == KeyOrder(join_keys)
    IN JoinWith("|", [i \in DOMAIN order |-> <<order[i], "=">> \o PyStr(row[order[i]])])

\* df.iterrows(): every row comes as one Series of a single dtype, so in a
\* frame of int and float columns only, the ints arrive as floats
IterRows(df) ==
    LET types == {df.rows[i].c[col].t : i \in DOMAIN df.rows, col \in Range(df.cols)}
        upcast == types \subseteq Numeric /\ "float" \in types
    IN [i \in DOMAIN df.rows |->
          [col \in Range(df.cols) |->
             LET v == df.rows[i].c[col]
             IN IF upcast /\ v.t = "int" THEN FloatV(v.n) ELSE v]]

\* a validation that does not look for the timestamp column
ValidateKeysAndFeatures(fv, df, join_keys) ==
    /\ \A k \in Range(join_keys) : HasCol(df, k)
    /\ \A f \in Range(fv.features) : HasCol(df, f)

\* OnlineStore.validate_feature_data: TRUE when it does not raise
ValidateFeatureData(fv, df, join_keys) ==
    /\ \A k \in Range(join_keys) : HasCol(df, k)
    /\ fv.timestamp_field # NoField => HasCol(df, fv.timestamp_field)
    /\ \A f \in Range(GetFeatureNames(fv)) : HasCol(df, f)

\* OnlineStore.validate_entity_rows: TRUE when it does not raise
ValidateEntityRows(entity_rows, join_keys) ==
    \A i \in DOMAIN entity_rows :
        \A k \in Range(join_keys) : k \in DOMAIN entity_rows[i].c

\* d[k] = v on a dict (a function)
Put(d, k, v) == [x \in DOMAIN d \cup {k} |-> IF x = k THEN v ELSE d[x]]
\* del d[k]
Del(d, k) == [x \in DOMAIN d \ {k} |-> d[x]]

Store(f, ts) == [features |-> f, timestamps |-> ts]

\* write_features lines 45-47: the view's two dicts are created when missing
InitView(st, name) ==
    IF name \notin DOMAIN st.features
    THEN Store(Put(st.features, name, <<>>), Put(st.timestamps, name, <<>>))
    ELSE st

\* line 55: self._features[name][entity_key] = {}
ClearRecord(st, name, key) ==
    Store(Put(st.features, name, Put(st.features[name], key, <<>>)), st.timestamps)

\* lines 57-60: one feature of the row is stored, if the row has it
SetFeature(st, name, key, f, row) ==
    IF f \in DOMAIN row
    THEN Store(Put(st.features, name,
                   Put(st.features[name], key, Put(st.features[name][key], f, row[f]))),
               st.timestamps)
    ELSE st

\* line 63: self._timestamps[name][entity_key] = timestamp
SetTimestamp(st, name, key, ts) ==
    Store(st.features, Put(st.timestamps, name, Put(st.timestamps[name], key, ts)))

RECURSIVE SetFeatures(_, _, _, _, _)
SetFeatures(st, name, key, names, row) ==
    IF names = <<>> THEN st
    ELSE SetFeatures(SetFeature(st, name, key, Head(names), row),
                     name, key, Tail(names), row)

\* a row loop that leaves a key alone once it holds a record
WriteRowIfAbsent(st, fv, row, join_keys, ts) ==
    LET key == CreateEntityKey(row, join_keys)
    IN IF key \in DOMAIN st.features[fv.name] THEN st
       ELSE SetTimestamp(
               SetFeatures(ClearRecord(st, fv.name, key), fv.name, key,
                           GetFeatureNames(fv), row),
               fv.name, key, ts)

\* a row loop that keeps a record stamped later than the write
WriteRowIfNewer(st, fv, row, join_keys, ts) ==
    LET key == CreateEntityKey(row, join_keys)
    IN IF key \in DOMAIN st.timestamps[fv.name] /\ st.timestamps[fv.name][key] > ts
       THEN st
       ELSE SetTimestamp(
               SetFeatures(ClearRecord(st, fv.name, key), fv.name, key,
                           GetFeatureNames(fv), row),
               fv.name, key, ts)

\* the body of the row loop, lines 50-63
WriteRow(st, fv, row, join_keys, ts) ==
    LET key == CreateEntityKey(row, join_keys)
    IN SetTimestamp(
          SetFeatures(ClearRecord(st, fv.name, key), fv.name, key,
                      GetFeatureNames(fv), row),
          fv.name, key, ts)

RECURSIVE WriteRows(_, _, _, _, _)
WriteRows(st, fv, rows, join_keys, ts) ==
    IF rows = <<>> THEN st
    ELSE WriteRows(WriteRow(st, fv, Head(rows), join_keys, ts),
                   fv, Tail(rows), join_keys, ts)

\* the time of the call, whatever timestamp the caller gave
StampOfNow(timestamp, now) == now

\* the timestamp a write stamps: the argument, or datetime.now()
StampOf(timestamp, now) == IF timestamp.some THEN timestamp.v ELSE now

\* MemoryOnlineStore.write_features, after validation
WriteFeatures(st, fv, df, timestamp, now, join_keys) ==
    WriteRows(InitView(st, fv.name), fv, IterRows(df), join_keys,
              StampOf(timestamp, now))

\* the feature names a read returns: the argument, or all of the view's
NamesOf(fv, names) == IF names.some THEN names.v ELSE GetFeatureNames(fv)

RECURSIVE FillRow(_, _, _)
\* lines 96-106 with a stored record
FillRow(d, names, record) ==
    IF names = <<>> THEN d
    ELSE FillRow(DictSet(d, Head(names),
                         IF Head(names) \in DOMAIN record THEN record[Head(names)]
                         ELSE Null),
                 Tail(names), record)

\* lines 89-108: the result row of one entity row; an entity that is not
\* stored reads as a record without features
ReadRow(st, fv, entity_row, names, join_keys) ==
    LET key == CreateEntityKey(entity_row.c, join_keys)
        stored == st.features[fv.name]
    IN FillRow(entity_row, names, IF key \in DOMAIN stored THEN stored[key] ELSE <<>>)

\* MemoryOnlineStore.read_features under the lock, lines 81-110
ReadFeatures(st, fv, entity_rows, names, join_keys) ==
    IF fv.name \notin DOMAIN st.features
    THEN Frame(join_keys \o NamesOf(fv, names), <<>>)
    ELSE DataFrameOf([i \in DOMAIN entity_rows |->
                        ReadRow(st, fv, entity_rows[i], NamesOf(fv, names), join_keys)])

\* a delete that empties the whole store
DeleteEverything(st, name) == Store(<<>>, <<>>)

\* MemoryOnlineStore.delete_features
DeleteFeatures(st, name) ==
    Store(IF name \in DOMAIN st.features THEN Del(st.features, name) ELSE st.features,
          IF name \in DOMAIN st.timestamps THEN Del(st.timestamps, name) ELSE st.timestamps)

\* MemoryOnlineStore.teardown and clear
Teardown(st) == Store(<<>>, <<>>)

-----------------------------------------------------------------------------
(* Spec: the online store under one caller *)

ViewNames == {fv.name : fv \in OnlineViews}

\* the frames a caller writes: every column of the view, one dtype per column
DriverCells ==
    {[c \in Range(SourceCols) |->
        CASE c = "driver_id" -> IntV(k)
          [] c = "conv_rate" -> FloatV(x)
          [] c = "acc_rate" -> FloatV(x + MaxVal)
          [] OTHER -> TimeV(1)] : k \in 1..MaxKey, x \in 1..MaxVal}

PairCells ==
    {[c \in {"a", "b", "f1", "f2"} |->
        CASE c = "a" -> IntV(k)
          [] c = "b" -> IntV(1)
          [] c = "f1" -> (IF float THEN FloatV(x) ELSE IntV(x))
          [] OTHER -> (IF float THEN FloatV(x + MaxVal) ELSE IntV(x + MaxVal))] :
     k \in 1..MaxKey, x \in 1..MaxVal, float \in BOOLEAN}

DriverFrames ==
    {FrameOfCells(SourceCols, cells) : cells \in SeqsUpTo(DriverCells, MaxRows)}

PairFrames ==
    {FrameOfCells(<<"a", "b", "f1", "f2">>, cells) : cells \in SeqsUpTo(PairCells, MaxPairRows)}

WriteFrames(fv) == IF fv.name = "driver_stats" THEN DriverFrames ELSE PairFrames

\* the entity rows a caller reads: dicts of the join keys (in either order),
\* and one that lacks a join key
DriverEntityRows ==
    {Dict(<<"driver_id">>, [c \in {"driver_id"} |-> IntV(k)]) : k \in 1..MaxKey}
    \cup {Dict(<<>>, <<>>)}

PairEntityRows ==
    {Dict(o, [c \in {"a", "b"} |-> IF c = "a" THEN IntV(k) ELSE IntV(1)]) :
       k \in 1..MaxKey, o \in {<<"a", "b">>, <<"b", "a">>}}
    \cup {Dict(<<"a">>, [c \in {"a"} |-> IntV(1)])}

DriverEntityRowLists == SeqsUpTo(DriverEntityRows, MaxEntRows)
PairEntityRowLists == SeqsUpTo(PairEntityRows, MaxPairRows)

EntityRowLists(fv) ==
    IF fv.name = "driver_stats" THEN DriverEntityRowLists ELSE PairEntityRowLists

\* feature_names of a read: omitted, one feature, or a feature and a name
\* the view does not declare
NameArgs(fv) ==
    {None, Some(<<fv.features[1]>>), Some(<<fv.features[2], "nope">>)}

TimestampArgs == {None} \cup {Some(t) : t \in 1..MaxTime}

\* History: per view, whether it was written or deleted, and the last row
\* written for each combination of join-key values since the last delete
\* (kept after a delete as what the delete removed).
NeverWritten == [state |-> "never", rows |-> <<>>]

RECURSIVE NoteRows(_, _, _)
NoteRows(known, fv, rows) ==
    IF rows = <<>> THEN known
    ELSE LET r == Head(rows)
             kv == [k \in JoinKeySet(fv) |-> r.c[k]]
             vals == [f \in Range(fv.features) |-> r.c[f]]
         IN NoteRows(Put(known, kv, vals), fv, Tail(rows))

NoteWrite(w, fv, df) ==
    [w EXCEPT ![fv.name] =
        [state |-> "live",
         rows |-> NoteRows(IF w[fv.name].state = "live" THEN w[fv.name].rows ELSE <<>>,
                           fv, df.rows)]]

NoteDelete(w, name) ==
    [w EXCEPT ![name] = IF @.state = "never" THEN @ ELSE [@ EXCEPT !.state = "deleted"]]

Init ==
    /\ StoreInit
    /\ clock = 1
    /\ op = [kind |-> "none"]
    /\ written = [n \in ViewNames |-> NeverWritten]
    /\ nops = 0
    /\ IdleHist /\ IdleConc

Current == Store(features, timestamps)

Becomes(st) == features' = st.features /\ timestamps' = st.timestamps

\* the last call was this very write, and it went through
SameWrite(last, fv, df, timestamp) ==
    /\ last.kind = "write"
    /\ last.status = "ok"
    /\ last.view = fv.name
    /\ last.df = df
    /\ last.timestamp = timestamp

\* a row of df is written over a stored record that holds other values
Replaces(st, fv, df, join_keys) ==
    /\ fv.name \in DOMAIN st.features
    /\ \E i \in DOMAIN df.rows :
          LET key == CreateEntityKey(IterRows(df)[i], join_keys)
          IN /\ key \in DOMAIN st.features[fv.name]
             /\ \E f \in Range(fv.features) :
                   st.features[fv.name][key][f] # df.rows[i].c[f]

\* one write_features call, start to end
Write(fv, df, timestamp) ==
    /\ nops < MaxOps
    /\ \E join_keys \in GetJoinKeys(fv) :
          IF ValidateFeatureData(fv, df, join_keys)
          THEN /\ Becomes(WriteFeatures(Current, fv, df, timestamp, clock, join_keys))
               /\ written' = NoteWrite(written, fv, df)
               /\ op' = [kind |-> "write", view |-> fv.name, status |-> "ok",
                         df |-> df, timestamp |-> timestamp,
                         repeat |-> SameWrite(op, fv, df, timestamp),
                         replaced |-> Replaces(Current, fv, df, join_keys)]
          ELSE /\ UNCHANGED <<storeVars, written>>
               /\ op' = [kind |-> "write", view |-> fv.name, status |-> "ValueError",
                         df |-> df, timestamp |-> timestamp, repeat |-> FALSE,
                         replaced |-> FALSE]
    /\ nops' = nops + 1
    /\ UNCHANGED <<clock, histVars, concVars>>

\* one read_features call, start to end
Read(fv, entity_rows, names) ==
    /\ nops < MaxOps
    /\ \E join_keys \in GetJoinKeys(fv) :
          op' = [kind |-> "read", view |-> fv.name, entity_rows |-> entity_rows,
                 names |-> NamesOf(fv, names),
                 status |-> IF ValidateEntityRows(entity_rows, join_keys)
                            THEN "ok" ELSE "ValueError",
                 df |-> IF ValidateEntityRows(entity_rows, join_keys)
                        THEN ReadFeatures(Current, fv, entity_rows, names, join_keys)
                        ELSE Frame(<<>>, <<>>)]
    /\ nops' = nops + 1
    /\ UNCHANGED <<storeVars, clock, written, histVars, concVars>>

\* one delete_features call
Delete(fv) ==
    /\ nops < MaxOps
    /\ Becomes(DeleteFeatures(Current, fv.name))
    /\ written' = NoteDelete(written, fv.name)
    /\ op' = [kind |-> "delete", view |-> fv.name, status |-> "ok"]
    /\ nops' = nops + 1
    /\ UNCHANGED <<clock, histVars, concVars>>

\* one teardown (or clear) call
TeardownCall ==
    /\ nops < MaxOps
    /\ Becomes(Teardown(Current))
    /\ written' = [n \in DOMAIN written |-> NeverWritten]
    /\ op' = [kind |-> "teardown", status |-> "ok"]
    /\ nops' = nops + 1
    /\ UNCHANGED <<clock, histVars, concVars>>

\* time passes between two calls
Tick ==
    /\ clock < MaxTime
    /\ clock' = clock + 1
    /\ UNCHANGED <<storeVars, op, written, nops, histVars, concVars>>

Next ==
    \/ \E fv \in OnlineViews : \E df \in WriteFrames(fv), timestamp \in TimestampArgs :
          Write(fv, df, timestamp)
    \/ \E fv \in OnlineViews : \E entity_rows \in EntityRowLists(fv), names \in NameArgs(fv) :
          Read(fv, entity_rows, names)
    \/ \E fv \in OnlineViews : Delete(fv)
    \/ TeardownCall
    \/ Tick

Spec == Init /\ [][Next]_vars

-----------------------------------------------------------------------------
(* Claims about the online store under one caller *)

ViewOf(name) == CHOOSE fv \in OnlineViews : fv.name = name

ReadReturned == op.kind = "read" /\ op.status = "ok"

\* entity row i of the last read names the join-key values kv
SameKeys(fv, i, kv) ==
    \A k \in JoinKeySet(fv) : PyEq(op.entity_rows[i].c[k], kv[k])

\* C4: read-after-write.  A read of join-key values that were written, and not
\* deleted since, returns for every declared feature asked for the value of
\* the last row written for them.
C4_ReadAfterWrite ==
    ReadReturned =>
        LET fv == ViewOf(op.view)
            w == written[op.view]
        IN w.state = "live" =>
              \A i \in DOMAIN op.entity_rows :
                 \A kv \in DOMAIN w.rows :
                    SameKeys(fv, i, kv) =>
                       /\ i \in DOMAIN op.df.rows
                       /\ \A f \in Range(fv.features) \cap Range(op.names) :
                             op.df.rows[i].c[f] = w.rows[kv][f]

\* the last call read a view that was deleted and not written since
ReadAfterDelete == ReadReturned /\ written[op.view].state = "deleted"

\* C5: after a delete, a read of the view returns one row per entity row with
\* every requested feature null, and no value written before the delete.
C5_NullRowsAfterDelete ==
    ReadAfterDelete =>
        /\ Len(op.df.rows) = Len(op.entity_rows)
        /\ \A i \in DOMAIN op.df.rows :
              \A f \in Range(op.names) : HasCol(op.df, f) /\ op.df.rows[i].c[f] = Null

\* every entity row of the last read carries every join key of the view
WellFormedRead ==
    \A i \in DOMAIN op.entity_rows :
        JoinKeySet(ViewOf(op.view)) \subseteq DOMAIN op.entity_rows[i].c

\* what row i of a read must hold for feature f: the stored value, or null
\* when the entity or the feature is not stored
Expected(fv, i, f, join_keys) ==
    LET key == CreateEntityKey(op.entity_rows[i].c, join_keys)
        stored == features[fv.name]
    IN IF key \in DOMAIN stored /\ f \in DOMAIN stored[key] THEN stored[key][f] ELSE Null

\* one row per entity row, each requested feature the stored value or null
RowPerEntity ==
    /\ Len(op.df.rows) = Len(op.entity_rows)
    /\ \A i \in DOMAIN op.entity_rows :
          \A f \in Range(op.names) :
             /\ HasCol(op.df, f)
             /\ \E join_keys \in GetJoinKeys(ViewOf(op.view)) :
                   op.df.rows[i].c[f] = Expected(ViewOf(op.view), i, f, join_keys)

\* C8: a read raises exactly when an entity row lacks a join key,
\* and otherwise returns one row per entity row, also for a view that holds
\* nothing.
C8_NeverRaisesRowPerEntity ==
    op.kind = "read" =>
        /\ op.status = "ValueError" <=> ~WellFormedRead
        /\ WellFormedRead => RowPerEntity

\* a step that completes a write equal to the call before it
RepeatsWrite ==
    /\ op.kind = "write" /\ op.status = "ok"
    /\ op'.kind = "write" /\ op'.status = "ok"
    /\ op'.view = op.view /\ op'.df = op.df /\ op'.timestamp = op.timestamp
    /\ nops' = nops + 1

\* C9 as claimed: the second of two equal writes (timestamp equal or omitted
\* in both) leaves records and write timestamps as the first left them.
C9_Idempotent ==
    [][RepeatsWrite => (features' = features /\ timestamps' = timestamps)]_vars

\* C9 as amended: the second of two equal writes leaves the records as the
\* first left them, and the write timestamps too when the timestamp argument
\* was given; with the argument omitted every row's key is stamped with the
\* time of the second call.
C9_IdempotentGivenTimestamp ==
    [][RepeatsWrite =>
          /\ features' = features
          /\ op.timestamp.some => timestamps' = timestamps
          /\ ~op.timestamp.some =>
                \A i \in DOMAIN op.df.rows :
                   \A join_keys \in GetJoinKeys(ViewOf(op.view)) :
                      timestamps'[op.view][CreateEntityKey(IterRows(op.df)[i], join_keys)]
                         = clock']_vars

\* C9's case: rows were written twice with the same timestamp argument, the
\* clock having moved between the two calls
C9_Witness ==
    /\ op.kind = "write" /\ op.status = "ok"
    /\ op.repeat
    /\ op.timestamp.some
    /\ op.df.rows # <<>>
    /\ clock > 1

\* C10: key construction is order-independent.  In whatever order the view
\* lists its join keys, the key of a row just written is a stored key, and a
\* read's row holds what is stored under the key of its entity row, whatever
\* the order of the keys in that row.
C10_OrderIndependent ==
    /\ (op.kind = "write" /\ op.status = "ok") =>
          \A i \in DOMAIN op.df.rows :
             \A join_keys \in GetJoinKeys(ViewOf(op.view)) :
                CreateEntityKey(IterRows(op.df)[i], join_keys) \in DOMAIN features[op.view]
    /\ (ReadReturned /\ op.view \in DOMAIN features) =>
          \A i \in DOMAIN op.entity_rows :
             \A join_keys \in GetJoinKeys(ViewOf(op.view)) :
                \A f \in Range(op.names) :
                   op.df.rows[i].c[f] = Expected(ViewOf(op.view), i, f, join_keys)

\* C10's case: a row written to the two-key view is found by a read whose
\* entity row lists the keys the other way round
C10_Witness ==
    /\ ReadReturned
    /\ op.view = "pair_stats"
    /\ \E i \in DOMAIN op.entity_rows :
          /\ op.entity_rows[i].order = <<"b", "a">>
          /\ i \in DOMAIN op.df.rows
          /\ HasCol(op.df, "f1")
          /\ op.df.rows[i].c["f1"] # Null

\* row i is the last row of the written frame for its join-key values
LastForKey(fv, df, i) ==
    \A j \in DOMAIN df.rows :
        j > i => \E k \in JoinKeySet(fv) : ~PyEq(df.rows[j].c[k], df.rows[i].c[k])

\* a step that completes a write
CompletesWrite == nops' = nops + 1 /\ op'.kind = "write" /\ op'.status = "ok"

\* C11: whole-record replace.  After a write, the record stored under the key
\* of each row (the last row, when several rows of the frame share a key)
\* holds the declared features with the values of that row and nothing else,
\* and the key's write timestamp is the timestamp of this write.
C11_WholeRecordReplace ==
    [][CompletesWrite =>
          LET fv == ViewOf(op'.view)
          IN \A i \in DOMAIN op'.df.rows :
                LastForKey(fv, op'.df, i) =>
                   \A join_keys \in GetJoinKeys(fv) :
                      LET key == CreateEntityKey(IterRows(op'.df)[i], join_keys)
                      IN /\ features'[op'.view][key] =
                               [f \in Range(fv.features) |-> op'.df.rows[i].c[f]]
                         /\ timestamps'[op'.view][key] =
                               (IF op'.timestamp.some THEN op'.timestamp.v ELSE clock)]_vars

\* C11's case: a write over a key stored with other values by an earlier
\* call, at a time after the clock's start
C11_Witness ==
    /\ op.kind = "write" /\ op.status = "ok"
    /\ op.replaced
    /\ nops >= 2
    /\ clock > 1

-----------------------------------------------------------------------------
(* SpecConc: the online store under several threads.  A call is a sequence  *)
(* of steps, one per statement that touches the store's dicts; the body of  *)
(* the read loop for one entity row is one step.                            *)

NoCall == [kind |-> "none"]

\* threading.RLock.acquire: free, or already held by the caller
Acquirable(t) == lock \in {NoThread, t}

\* an evaluation that needs no lock, taken by no call of the store
Unguarded(t) == TRUE

\* write_features line 43: with self._lock
WriteCanEnter(t) == Acquirable(t)

\* read_features line 81: with self._lock
ReadCanEnter(t) == Acquirable(t)

\* delete_features line 114: with self._lock
DeleteCanEnter(t) == Acquirable(t)

\* a with block that is left with the lock still held
KeepsLock(t) == lock' = lock

\* leaving a with block, normally or by an exception
Release(t) == lock' = IF lock = t THEN NoThread ELSE lock

At(t, label) == pc[t] = label

Goto(t, label) == pc' = [pc EXCEPT ![t] = label]

ConcView == DriverStats

ConcRowLists == {rows \in DriverEntityRowLists : rows # <<>>}

\* write_features up to the lock: validation, timestamp, join keys
CallWrite(t, df) ==
    /\ At(t, "idle") /\ nops < MaxCalls
    /\ nops' = nops + 1
    /\ \E join_keys \in GetJoinKeys(ConcView) :
          IF ValidateFeatureData(ConcView, df, join_keys)
          THEN /\ call' = [call EXCEPT ![t] =
                      [kind |-> "write", status |-> "running", rows |-> IterRows(df),
                       join_keys |-> join_keys, ts |-> StampOf(None, clock),
                       i |-> 1, j |-> 1]]
               /\ Goto(t, "w_lock")
          ELSE /\ call' = [call EXCEPT ![t] = [kind |-> "write", status |-> "ValueError"]]
               /\ Goto(t, "unwind")
    /\ UNCHANGED <<storeVars, lock, stable, clock, op, written, histVars>>

WriteEnter(t) ==
    /\ At(t, "w_lock") /\ WriteCanEnter(t)
    /\ lock' = t
    /\ Goto(t, "w_init")
    /\ UNCHANGED <<storeVars, call, stable, seqVars, histVars>>

\* lines 45-47
WriteInitView(t) ==
    /\ At(t, "w_init")
    /\ Becomes(InitView(Current, ConcView.name))
    /\ Goto(t, IF call[t].rows = <<>> THEN "w_unlock" ELSE "w_clear")
    /\ UNCHANGED <<call, lock, stable, seqVars, histVars>>

\* the entity key of the row a write is at
KeyAt(t) == CreateEntityKey(call[t].rows[call[t].i], call[t].join_keys)

\* an exception inside the with block: the call is over, the lock released
Fails(t, kind) ==
    /\ call' = [call EXCEPT ![t] = [@ EXCEPT !.status = kind]]
    /\ Goto(t, "unwind")
    /\ UNCHANGED storeVars

\* line 55
WriteClear(t) ==
    /\ At(t, "w_clear")
    /\ IF ConcView.name \in DOMAIN features
       THEN /\ Becomes(ClearRecord(Current, ConcView.name, KeyAt(t)))
            /\ call' = [call EXCEPT ![t] = [@ EXCEPT !.j = 1]]
            /\ Goto(t, "w_set")
       ELSE Fails(t, "KeyError")
    /\ UNCHANGED <<lock, stable, seqVars, histVars>>

\* lines 56-60, one feature
WriteSet(t) ==
    /\ At(t, "w_set")
    /\ IF /\ ConcView.name \in DOMAIN features
          /\ KeyAt(t) \in DOMAIN features[ConcView.name]
       THEN /\ Becomes(SetFeature(Current, ConcView.name, KeyAt(t),
                                  GetFeatureNames(ConcView)[call[t].j],
                                  call[t].rows[call[t].i]))
            /\ call' = [call EXCEPT ![t] = [@ EXCEPT !.j = @ + 1]]
            /\ Goto(t, IF call[t].j = Len(GetFeatureNames(ConcView))
                       THEN "w_stamp" ELSE "w_set")
       ELSE Fails(t, "KeyError")
    /\ UNCHANGED <<lock, stable, seqVars, histVars>>

\* line 63, and on to the next row
WriteStamp(t) ==
    /\ At(t, "w_stamp")
    /\ IF ConcView.name \in DOMAIN timestamps
       THEN /\ Becomes(SetTimestamp(Current, ConcView.name, KeyAt(t), call[t].ts))
            /\ call' = [call EXCEPT ![t] = [@ EXCEPT !.i = @ + 1]]
            /\ Goto(t, IF call[t].i = Len(call[t].rows) THEN "w_unlock" ELSE "w_clear")
       ELSE Fails(t, "KeyError")
    /\ UNCHANGED <<lock, stable, seqVars, histVars>>

\* the end of write_features
WriteExit(t) ==
    /\ At(t, "w_unlock")
    /\ Release(t)
    /\ stable' = Current
    /\ call' = [call EXCEPT ![t] = NoCall]
    /\ Goto(t, "idle")
    /\ UNCHANGED <<storeVars, seqVars, histVars>>

\* read_features up to the lock: validation, feature names, join keys
CallRead(t, entity_rows) ==
    /\ At(t, "idle") /\ nops < MaxCalls
    /\ nops' = nops + 1
    /\ \E join_keys \in GetJoinKeys(ConcView) :
          IF ValidateEntityRows(entity_rows, join_keys)
          THEN /\ call' = [call EXCEPT ![t] =
                      [kind |-> "read", status |-> "running", entity_rows |-> entity_rows,
                       names |-> NamesOf(ConcView, None), join_keys |-> join_keys,
                       result_rows |-> <<>>, snap |-> stable, settled |-> <<>>]]
               /\ Goto(t, "r_lock")
          ELSE /\ call' = [call EXCEPT ![t] = [kind |-> "read", status |-> "ValueError"]]
               /\ Goto(t, "unwind")
    /\ UNCHANGED <<storeVars, lock, stable, clock, op, written, histVars>>

\* line 81; snap is the store as the last call to finish left it
ReadEnter(t) ==
    /\ At(t, "r_lock") /\ ReadCanEnter(t)
    /\ lock' = t
    /\ call' = [call EXCEPT ![t] = [@ EXCEPT !.snap = stable]]
    /\ Goto(t, "r_check")
    /\ UNCHANGED <<storeVars, stable, seqVars, histVars>>

\* lines 83-86: the view has no entry, the read returns a frame without rows
ReadCheck(t) ==
    /\ At(t, "r_check")
    /\ IF ConcView.name \notin DOMAIN features
       THEN /\ call' = [call EXCEPT ![t] = [@ EXCEPT !.status = "empty"]]
            /\ Goto(t, "r_unlock")
       ELSE /\ UNCHANGED call
            /\ Goto(t, IF call[t].entity_rows = <<>> THEN "r_unlock" ELSE "r_row")
    /\ UNCHANGED <<storeVars, lock, stable, seqVars, histVars>>

\* the row a read of store st gives for the entity row the call is at
RowFrom(st, t) ==
    ReadRow(st, ConcView, call[t].entity_rows[Len(call[t].result_rows) + 1],
            call[t].names, call[t].join_keys)

\* lines 89-108 for one entity row; settled is the row as the last call to
\* finish left it
ReadRowStep(t) ==
    /\ At(t, "r_row")
    /\ IF ConcView.name \in DOMAIN features
       THEN /\ call' = [call EXCEPT ![t] =
                   [@ EXCEPT !.result_rows = Append(@, RowFrom(Current, t)),
                             !.settled = Append(@, IF ConcView.name \in DOMAIN stable.features
                                                   THEN RowFrom(stable, t)
                                                   ELSE Dict(<<>>, <<>>))]]
            /\ Goto(t, IF Len(call[t].result_rows) + 1 = Len(call[t].entity_rows)
                       THEN "r_unlock" ELSE "r_row")
            /\ UNCHANGED storeVars
       ELSE Fails(t, "KeyError")
    /\ UNCHANGED <<lock, stable, seqVars, histVars>>

\* line 110 and the end of read_features
ReadExit(t) ==
    /\ At(t, "r_unlock")
    /\ Release(t)
    /\ call' = [call EXCEPT ![t] = NoCall]
    /\ Goto(t, "idle")
    /\ UNCHANGED <<storeVars, stable, seqVars, histVars>>

CallDelete(t) ==
    /\ At(t, "idle") /\ nops < MaxCalls
    /\ nops' = nops + 1
    /\ call' = [call EXCEPT ![t] = [kind |-> "delete", status |-> "running"]]
    /\ Goto(t, "d_lock")
    /\ UNCHANGED <<storeVars, lock, stable, clock, op, written, histVars>>

DeleteEnter(t) ==
    /\ At(t, "d_lock") /\ DeleteCanEnter(t)
    /\ lock' = t
    /\ Goto(t, "d_features")
    /\ UNCHANGED <<storeVars, call, stable, seqVars, histVars>>

\* lines 115-116
DeleteRecords(t) ==
    /\ At(t, "d_features")
    /\ features' = IF ConcView.name \in DOMAIN features
                   THEN Del(features, ConcView.name) ELSE features
    /\ Goto(t, "d_timestamps")
    /\ UNCHANGED <<timestamps, call, lock, stable, seqVars, histVars>>

\* lines 117-118
DeleteTimestamps(t) ==
    /\ At(t, "d_timestamps")
    /\ timestamps' = IF ConcView.name \in DOMAIN timestamps
                     THEN Del(timestamps, ConcView.name) ELSE timestamps
    /\ Goto(t, "d_unlock")
    /\ UNCHANGED <<features, call, lock, stable, seqVars, histVars>>

DeleteExit(t) ==
    /\ At(t, "d_unlock")
    /\ Release(t)
    /\ stable' = Current
    /\ call' = [call EXCEPT ![t] = NoCall]
    /\ Goto(t, "idle")
    /\ UNCHANGED <<storeVars, seqVars, histVars>>

\* an exception leaves the call: the lock, if held, is released
Unwind(t) ==
    /\ At(t, "unwind")
    /\ Release(t)
    /\ stable' = IF lock = t THEN Current ELSE stable
    /\ call' = [call EXCEPT ![t] = NoCall]
    /\ Goto(t, "idle")
    /\ UNCHANGED <<storeVars, seqVars, histVars>>

ConcInit ==
    /\ StoreInit
    /\ IdleSeq /\ IdleHist /\ IdleConc

ConcNext ==
    \E t \in Threads :
        \/ \E df \in DriverFrames : CallWrite(t, df)
        \/ WriteEnter(t)
        \/ WriteInitView(t)
        \/ WriteClear(t)
        \/ WriteSet(t)
        \/ WriteStamp(t)
        \/ WriteExit(t)
        \/ \E entity_rows \in ConcRowLists : CallRead(t, entity_rows)
        \/ ReadEnter(t)
        \/ ReadCheck(t)
        \/ ReadRowStep(t)
        \/ ReadExit(t)
        \/ CallDelete(t)
        \/ DeleteEnter(t)
        \/ DeleteRecords(t)
        \/ DeleteTimestamps(t)
        \/ DeleteExit(t)
        \/ Unwind(t)

SpecConc == ConcInit /\ [][ConcNext]_vars

-----------------------------------------------------------------------------
(* Claims about the online store under several threads *)

Reading(t) == call[t].kind = "read" /\ call[t].status # "ValueError"

Writing(t) == call[t].kind = "write" /\ call[t].status # "ValueError"

\* the join-key value of entity row i of t's read
ReadKey(t, i) == call[t].entity_rows[i].c["driver_id"]

\* C6: write atomicity.  Every row a read has produced is, feature for
\* feature, the record as the last finished call left it: the whole record
\* from before a concurrent write or the whole record after it, never the
\* emptied or half-filled record of a write in progress.
C6_WriteAtomic ==
    \A t \in Threads :
        Reading(t) =>
            \A i \in DOMAIN call[t].result_rows :
                call[t].result_rows[i] = call[t].settled[i]

\* C6's case: a read has returned the stored record of a key while a write of
\* another record for the same key waits for the lock
C6_Witness ==
    \E t, u \in Threads :
        /\ Reading(t) /\ At(t, "r_unlock")
        /\ Writing(u) /\ At(u, "w_lock")
        /\ \E i \in DOMAIN call[t].result_rows :
              \E r \in DOMAIN call[u].rows :
                 /\ PyEq(ReadKey(t, i), call[u].rows[r]["driver_id"])
                 /\ call[t].result_rows[i].c["conv_rate"] # Null
                 /\ call[t].result_rows[i].c["conv_rate"] # call[u].rows[r]["conv_rate"]

\* C7: delete atomicity.  A read never fails on a view deleted under it, and
\* what it has produced is what one store, the one it found on taking the
\* lock, holds for its entity rows: every stored record of the view, or,
\* when that store has no entry for the view, no row at all.
C7_DeleteAtomic ==
    \A t \in Threads :
        (Reading(t) /\ ~At(t, "r_lock") /\ ~At(t, "r_check")) =>
            /\ call[t].status # "KeyError"
            /\ IF ConcView.name \in DOMAIN call[t].snap.features
               THEN /\ call[t].status = "running"
                    /\ \A i \in DOMAIN call[t].result_rows :
                          call[t].result_rows[i] =
                             ReadRow(call[t].snap, ConcView, call[t].entity_rows[i],
                                     call[t].names, call[t].join_keys)
               ELSE call[t].status = "empty" /\ call[t].result_rows = <<>>

\* C7's case: a read of two stored keys has returned both records while a
\* delete of the view waits for the lock
C7_Witness ==
    \E t, u \in Threads :
        /\ Reading(t) /\ At(t, "r_unlock")
        /\ call[u].kind = "delete" /\ At(u, "d_lock")
        /\ Len(call[t].result_rows) = 2
        /\ ReadKey(t, 1) # ReadKey(t, 2)
        /\ \A i \in 1..2 : call[t].result_rows[i].c["conv_rate"] # Null

-----------------------------------------------------------------------------
(* SpecLive: the threads also call teardown and clear, and are scheduled    *)
(* fairly                                                                   *)

\* teardown line 122, clear line 164: with self._lock
TeardownCanEnter(t) == Acquirable(t)

\* teardown() or clear(): the two have the same body
CallTeardown(t, kind) ==
    /\ At(t, "idle") /\ nops < MaxCalls
    /\ nops' = nops + 1
    /\ call' = [call EXCEPT ![t] = [kind |-> kind, status |-> "running"]]
    /\ Goto(t, "t_lock")
    /\ UNCHANGED <<storeVars, lock, stable, clock, op, written, histVars>>

TeardownEnter(t) ==
    /\ At(t, "t_lock") /\ TeardownCanEnter(t)
    /\ lock' = t
    /\ Goto(t, "t_features")
    /\ UNCHANGED <<storeVars, call, stable, seqVars, histVars>>

\* self._features.clear()
TeardownRecords(t) ==
    /\ At(t, "t_features")
    /\ features' = <<>>
    /\ Goto(t, "t_timestamps")
    /\ UNCHANGED <<timestamps, call, lock, stable, seqVars, histVars>>

\* self._timestamps.clear()
TeardownTimestamps(t) ==
    /\ At(t, "t_timestamps")
    /\ timestamps' = <<>>
    /\ Goto(t, "t_unlock")
    /\ UNCHANGED <<features, call, lock, stable, seqVars, histVars>>

TeardownExit(t) ==
    /\ At(t, "t_unlock")
    /\ Release(t)
    /\ stable' = Current
    /\ call' = [call EXCEPT ![t] = NoCall]
    /\ Goto(t, "idle")
    /\ UNCHANGED <<storeVars, seqVars, histVars>>

\* the steps of a call thread t has started
Proceed(t) ==
    \/ WriteEnter(t) \/ WriteInitView(t) \/ WriteClear(t) \/ WriteSet(t)
    \/ WriteStamp(t) \/ WriteExit(t)
    \/ ReadEnter(t) \/ ReadCheck(t) \/ ReadRowStep(t) \/ ReadExit(t)
    \/ DeleteEnter(t) \/ DeleteRecords(t) \/ DeleteTimestamps(t) \/ DeleteExit(t)
    \/ TeardownEnter(t) \/ TeardownRecords(t) \/ TeardownTimestamps(t)
    \/ TeardownExit(t)
    \/ Unwind(t)

\* the frames written and the entity rows read by the threads of SpecLive:
\* one value per feature, one entity row per read
LiveFrames ==
    {df \in DriverFrames :
        \A i \in DOMAIN df.rows : df.rows[i].c["conv_rate"] = FloatV(1)}

LiveRowLists == {rows \in ConcRowLists : Len(rows) = 1}

LiveNext ==
    \E t \in Threads :
        \/ \E df \in LiveFrames : CallWrite(t, df)
        \/ \E entity_rows \in LiveRowLists : CallRead(t, entity_rows)
        \/ CallDelete(t)
        \/ \E kind \in {"teardown", "clear"} : CallTeardown(t, kind)
        \/ Proceed(t)

\* every thread that can take a step of its call eventually takes one
Fairness == \A t \in Threads : WF_vars(Proceed(t))

SpecLive == ConcInit /\ [][LiveNext]_vars /\ Fairness

\* thread t waits for the lock another thread holds
Blocked(t) ==
    /\ pc[t] \in {"w_lock", "r_lock", "d_lock", "t_lock"}
    /\ ~Acquirable(t)

\* C23: no state has every thread blocked, a thread that is not in a call
\* does not hold the lock, and every call that starts completes.
C23_Progress ==
    /\ [](\E t \in Threads : ~Blocked(t))
    /\ [](\A t \in Threads : At(t, "idle") => lock # t)
    /\ \A t \in Threads : ~At(t, "idle") ~> At(t, "idle")

\* C23's case: a thread waits to write while the other holds the lock in the
\* middle of a teardown
C23_Witness ==
    \E t, u \in Threads :
        /\ At(t, "w_lock") /\ Blocked(t)
        /\ lock = u /\ call[u].kind = "teardown" /\ At(u, "t_timestamps")

\* the keys stored for each view
KeysOf(d) == [name \in DOMAIN d |-> DOMAIN d[name]]

\* C30: whenever no call holds the lock, the feature map and the timestamp
\* map hold the same views and, for each view, the same entity keys.
C30_MapsAgree == lock = NoThread => KeysOf(features) = KeysOf(timestamps)

\* C30's case: records are stored, no call holds the lock, a delete and a
\* clear have been started
C30_Witness ==
    /\ lock = NoThread
    /\ ConcView.name \in DOMAIN features
    /\ features[ConcView.name] # <<>>
    /\ \E t, u \in Threads :
          /\ call[t].kind = "delete" /\ At(t, "d_lock")
          /\ call[u].kind = "clear" /\ At(u, "t_lock")

-----------------------------------------------------------------------------
(* Materialization: FileSource.read, pull_latest_from_table_or_query,       *)
(* FeatureStore.materialize and materialize_incremental                     *)

\* A view kept for training only.
OfflineStats ==
    [name |-> "offline_stats",
     entities |-> <<[name |-> "driver_id", join_keys |-> <<"driver_id">>]>>,
     features |-> <<"conv_rate", "acc_rate">>,
     timestamp_field |-> "event_timestamp",
     online |-> FALSE]

\* SqliteRegistry.list_feature_views: the applied views, ORDER BY name
ListFeatureViews == <<DriverStats, OfflineStats, PairStats>>

\* SqliteRegistry.get_feature_view: the view of that name, or None
GetFeatureView(name) ==
    IF \E i \in DOMAIN ListFeatureViews : ListFeatureViews[i].name = name
    THEN Some(CHOOSE fv \in Range(ListFeatureViews) : fv.name = name)
    ELSE None

\* a resolution that passes over the names the registry does not know
ResolveKnownViews(names) ==
    IF names.some /\ names.v # <<>>
    THEN [status |-> "ok",
          fvs |-> LET known == SelectSeq(names.v, LAMBDA n : GetFeatureView(n).some)
                  IN [i \in DOMAIN known |-> GetFeatureView(known[i]).v]]
    ELSE [status |-> "ok", fvs |-> ListFeatureViews]

\* materialize / materialize_incremental, "Get feature views to materialize":
\* every name is looked up before any view is materialized
ResolveViews(names) ==
    IF names.some /\ names.v # <<>>
    THEN IF \A i \in DOMAIN names.v : GetFeatureView(names.v[i]).some
         THEN [status |-> "ok",
               fvs |-> [i \in DOMAIN names.v |-> GetFeatureView(names.v[i]).v]]
         ELSE [status |-> "ValueError", fvs |-> <<>>]
    ELSE [status |-> "ok", fvs |-> ListFeatureViews]

Pulled(df) == [status |-> "ok", df |-> df]
PullRaised(kind) == [status |-> kind, df |-> Frame(<<>>, <<>>)]

\* the rows from start_date on, or all of them
Since(df, field, start_date) ==
    IF start_date.some
    THEN Frame(df.cols, SelectSeq(df.rows, LAMBDA r : r.c[field].n >= start_date.v))
    ELSE df

\* the rows up to end_date, or all of them
Until(df, field, end_date) ==
    IF end_date.some
    THEN Frame(df.cols, SelectSeq(df.rows, LAMBDA r : r.c[field].n <= end_date.v))
    ELSE df

\* a read that cuts the rows at end_date only
FileReadUntil(fv, df, start_date, end_date) ==
    IF start_date.some \/ end_date.some
    THEN IF fv.timestamp_field = NoField \/ ~HasCol(df, fv.timestamp_field)
         THEN PullRaised("ValueError")
         ELSE Pulled(Until(df, fv.timestamp_field, end_date))
    ELSE Pulled(df)

\* FileSource.read of the file df: the date filter needs the timestamp field
FileRead(fv, df, start_date, end_date) ==
    IF start_date.some \/ end_date.some
    THEN IF fv.timestamp_field = NoField \/ ~HasCol(df, fv.timestamp_field)
         THEN PullRaised("ValueError")
         ELSE Pulled(Until(Since(df, fv.timestamp_field, start_date),
                           fv.timestamp_field, end_date))
    ELSE Pulled(df)

\* df.sort_values(field): the sort is not a stable one, so rows of equal
\* field value may come out in any order; these are the orders it can give
SortValues(rows, field) ==
    {sorted \in {[i \in DOMAIN rows |-> rows[p[i]]] : p \in Perms(DOMAIN rows)} :
        \A i, j \in DOMAIN sorted : i < j => sorted[i].c[field].n <= sorted[j].c[field].n}

\* every row kept
AllRows(rows, join_keys) == rows

\* groupby(join_keys).tail(1): the last row of every group, in frame order
GroupTail(rows, join_keys) ==
    LET last(i) == \A j \in DOMAIN rows :
                      j > i => \E k \in Range(join_keys) : ~PyEq(rows[j].c[k], rows[i].c[k])
        keep == {i \in DOMAIN rows : last(i)}
        RECURSIVE pick(_)
        pick(i) == IF i > Len(rows) THEN <<>>
                   ELSE (IF i \in keep THEN <<rows[i]>> ELSE <<>>) \o pick(i + 1)
    IN pick(1)

\* ParquetOfflineStore.pull_latest_from_table_or_query: the frames it can return
PullLatest(fv, df, start_date, end_date) ==
    LET read == FileRead(fv, df, start_date, end_date)
    IN IF read.status # "ok" THEN {read}
       ELSE IF fv.timestamp_field # NoField
            THEN IF ~HasCol(read.df, fv.timestamp_field) THEN {PullRaised("KeyError")}
                 ELSE
                 {Pulled(Frame(read.df.cols, GroupTail(sorted, join_keys))) :
                     sorted \in SortValues(read.df.rows, fv.timestamp_field),
                     join_keys \in GetJoinKeys(fv)}
            ELSE {read}

\* a materialization that takes every view
AnyView(fv) == TRUE

\* "if fv.online": only online feature views are materialized
IsOnline(fv) == fv.online

\* The state of a materialize call between two views: the store, whether an
\* exception has ended the call, and the views whose source has been read.
MatState(st, status, pulled) == [st |-> st, status |-> status, pulled |-> pulled]

\* the body of the loop "for fv in fvs" for one view: the outcomes it can have
MaterializeView(m, fv, srcs, start_date, end_date, now) ==
    IF ~IsOnline(fv) THEN {m}
    ELSE {LET seen == m.pulled \cup {fv.name}
          IN IF got.status # "ok" THEN MatState(m.st, got.status, seen)
             ELSE IF Empty(got.df) THEN MatState(m.st, "ok", seen)
             ELSE IF ~ValidateFeatureData(fv, got.df, join_keys)
                  THEN MatState(m.st, "ValueError", seen)
                  ELSE MatState(WriteFeatures(m.st, fv, got.df, Some(end_date), now, join_keys),
                                "ok", seen) :
          got \in PullLatest(fv, srcs[fv.name], start_date, Some(end_date)),
          join_keys \in GetJoinKeys(fv)}

RECURSIVE MaterializeViews(_, _, _, _, _, _)
\* the loop over the views; an exception ends it
MaterializeViews(m, fvs, srcs, start_date, end_date, now) ==
    IF fvs = <<>> \/ m.status # "ok" THEN {m}
    ELSE UNION {MaterializeViews(m2, Tail(fvs), srcs, start_date, end_date, now) :
                   m2 \in MaterializeView(m, Head(fvs), srcs, start_date, end_date, now)}

\* FeatureStore.materialize (start_date given) and materialize_incremental
\* (start_date None): the outcomes the call can have on store st
MaterializeOutcomes(st, srcs, start_date, end_date, names, now) ==
    LET resolved == ResolveViews(names)
    IN IF resolved.status # "ok" THEN {MatState(st, resolved.status, {})}
       ELSE MaterializeViews(MatState(st, "ok", {}), resolved.fvs,
                             srcs, start_date, end_date, now)

-----------------------------------------------------------------------------
(* SpecMat: sources, materialize calls and pulls *)

\* the rows a source file of driver_stats can hold
MatCells ==
    {[c \in Range(SourceCols) |->
        CASE c = "driver_id" -> IntV(k)
          [] c = "conv_rate" -> FloatV(x)
          [] c = "acc_rate" -> FloatV(x + MaxVal)
          [] OTHER -> TimeV(t)] : k \in 1..MaxKey, x \in 1..MaxVal, t \in 1..MaxTime}

MatSources == {FrameOfCells(SourceCols, cells) : cells \in SeqsUpTo(MatCells, MaxSrcRows)}

\* the file of offline_stats, and the frame written straight to the online
\* store for that view
OfflineFrame ==
    FrameOfCells(SourceCols,
                 <<[c \in Range(SourceCols) |->
                      CASE c = "driver_id" -> IntV(1)
                        [] c = "conv_rate" -> FloatV(1)
                        [] c = "acc_rate" -> FloatV(1 + MaxVal)
                        [] OTHER -> TimeV(1)]>>)

\* the file of pair_stats: no timestamp column
PairFile ==
    FrameOfCells(<<"a", "b", "f1", "f2">>,
                 <<[c \in {"a", "b", "f1", "f2"} |->
                      CASE c = "a" -> IntV(1)
                        [] c = "b" -> IntV(1)
                        [] c = "f1" -> FloatV(1)
                        [] OTHER -> FloatV(1 + MaxVal)],
                   [c \in {"a", "b", "f1", "f2"} |->
                      CASE c = "a" -> IntV(1)
                        [] c = "b" -> IntV(1)
                        [] c = "f1" -> FloatV(MaxVal)
                        [] OTHER -> FloatV(MaxVal + MaxVal)]>>)

SourcesOf(driver_file) ==
    [n \in {"driver_stats", "offline_stats", "pair_stats"} |->
        CASE n = "driver_stats" -> driver_file
          [] n = "offline_stats" -> OfflineFrame
          [] OTHER -> PairFile]

\* the view names a materialize call is given
MatNameArgs ==
    {None,
     Some(<<"driver_stats">>),
     Some(<<"driver_stats", "unknown">>),
     Some(<<"driver_stats", "offline_stats">>),
     Some(<<"pair_stats">>)}

Dates == {Some(t) : t \in 1..MaxTime}

MatInit ==
    /\ sources \in {SourcesOf(f) : f \in MatSources}
    /\ StoreInit
    /\ IdleSeq /\ IdleConc
    /\ source = Frame(SourceCols, <<>>)
    /\ entity_df = Frame(<<"driver_id">>, <<>>)
    /\ feature_refs = <<>>
    /\ hist = NotCalled

MatFrame == <<source, entity_df, feature_refs, hist, sources, clock, written, concVars>>

\* FeatureStore.materialize_incremental
MaterializeIncremental(end_date, names) ==
    /\ nops < MaxMatCalls
    /\ nops' = nops + 1
    /\ \E m \in MaterializeOutcomes(Current, sources, None, end_date.v, names, clock) :
          /\ Becomes(m.st)
          /\ op' = [kind |-> "materialize_incremental", names |-> names,
                    start_date |-> None, end_date |-> end_date,
                    status |-> m.status, pulled |-> m.pulled]
    /\ UNCHANGED MatFrame

\* FeatureStore.materialize
Materialize(start_date, end_date, names) ==
    /\ nops < MaxMatCalls
    /\ nops' = nops + 1
    /\ \E m \in MaterializeOutcomes(Current, sources, start_date, end_date.v, names, clock) :
          /\ Becomes(m.st)
          /\ op' = [kind |-> "materialize", names |-> names,
                    start_date |-> start_date, end_date |-> end_date,
                    status |-> m.status, pulled |-> m.pulled]
    /\ UNCHANGED MatFrame

\* ParquetOfflineStore.pull_latest_from_table_or_query, called on its own
PullLatestCall(fv, start_date, end_date) ==
    /\ nops < MaxMatCalls
    /\ nops' = nops + 1
    /\ \E got \in PullLatest(fv, sources[fv.name], start_date, end_date) :
          op' = [kind |-> "pull", view |-> fv.name, start_date |-> start_date,
                 end_date |-> end_date, status |-> got.status, df |-> got.df]
    /\ UNCHANGED <<storeVars, MatFrame>>

\* write_features on the offline view, straight to the online store
WriteOffline ==
    /\ nops < MaxMatCalls
    /\ nops' = nops + 1
    /\ \E join_keys \in GetJoinKeys(OfflineStats) :
          Becomes(WriteFeatures(Current, OfflineStats, OfflineFrame, None, clock, join_keys))
    /\ op' = [kind |-> "write", view |-> OfflineStats.name, status |-> "ok"]
    /\ UNCHANGED MatFrame

MatNext ==
    \/ \E end_date \in Dates, names \in MatNameArgs :
          MaterializeIncremental(end_date, names)
    \/ \E start_date \in Dates, end_date \in Dates, names \in MatNameArgs :
          Materialize(start_date, end_date, names)
    \/ \E fv \in {DriverStats, PairStats}, start_date \in Dates \cup {None},
          end_date \in Dates \cup {None} :
          PullLatestCall(fv, start_date, end_date)
    \/ WriteOffline

SpecMat == MatInit /\ [][MatNext]_vars

-----------------------------------------------------------------------------
(* Claims about materialization *)

DriverFile == sources["driver_stats"]

DriverEntity(k) == Dict(<<"driver_id">>, [c \in {"driver_id"} |-> IntV(k)])

\* the online-store key of driver k
DriverKey(k) == CreateEntityKey(DriverEntity(k).c, <<"driver_id">>)

\* the records the online store holds for a view
Records(f, name) == IF name \in DOMAIN f THEN f[name] ELSE <<>>

\* the rows of driver k in the file with a timestamp in [from, to]
InWindow(k, from, to) ==
    {i \in DOMAIN DriverFile.rows :
        /\ DriverFile.rows[i].c["driver_id"] = IntV(k)
        /\ from <= DriverFile.rows[i].c["event_timestamp"].n
        /\ DriverFile.rows[i].c["event_timestamp"].n <= to}

\* row i is a latest one among the rows in S
Latest(i, S) ==
    /\ i \in S
    /\ \A j \in S : DriverFile.rows[j].c["event_timestamp"].n
                        <= DriverFile.rows[i].c["event_timestamp"].n

\* the feature values of row i of the file
ValuesOf(i) == [f \in Range(DriverStats.features) |-> DriverFile.rows[i].c[f]]

\* what a read of driver k returns
ReadDriver(k) ==
    ReadFeatures(Current, DriverStats, <<DriverEntity(k)>>, None, <<"driver_id">>)

\* C12: after materialize_incremental(T) on an empty online store, the store
\* holds a record for exactly the drivers with a source row at or before T,
\* with the values of a latest such row; a driver without one has no record
\* and a read returns a row of nulls for it.
C12_MaterializeIncremental ==
    (/\ op.kind = "materialize_incremental" /\ op.status = "ok"
     /\ nops = 1 /\ "driver_stats" \in op.pulled) =>
        \A k \in 1..MaxKey :
            LET rows == InWindow(k, 0, op.end_date.v)
                stored == Records(features, "driver_stats")
            IN IF rows # {}
               THEN /\ DriverKey(k) \in DOMAIN stored
                    /\ \E i \in rows : Latest(i, rows) /\ stored[DriverKey(k)] = ValuesOf(i)
               ELSE /\ DriverKey(k) \notin DOMAIN stored
                    /\ Len(ReadDriver(k).rows) = 1
                    /\ \A f \in Range(DriverStats.features) :
                          /\ HasCol(ReadDriver(k), f)
                          /\ ReadDriver(k).rows[1].c[f] = Null

\* a step that is one materialize or materialize_incremental call
MaterializeStep ==
    nops' = nops + 1 /\ op'.kind \in {"materialize", "materialize_incremental"}

UnknownNamed(names) ==
    names.some /\ \E i \in DOMAIN names.v : ~GetFeatureView(names.v[i]).some

\* C13: all-or-nothing name resolution.  A materialize call given a name the
\* registry does not know fails, reads no source and leaves the online store
\* as it was.
C13_AllOrNothingNames ==
    [][(MaterializeStep /\ UnknownNamed(op'.names)) =>
          /\ op'.status = "ValueError"
          /\ op'.pulled = {}
          /\ features' = features /\ timestamps' = timestamps]_vars

\* C13's case: the call named driver_stats, whose file had rows to write,
\* before the unknown name
C13_Witness ==
    /\ op.kind \in {"materialize", "materialize_incremental"}
    /\ op.names = Some(<<"driver_stats", "unknown">>)
    /\ op.status = "ValueError"
    /\ "driver_stats" \notin DOMAIN features
    /\ \E k \in 1..MaxKey :
          InWindow(k, IF op.start_date.some THEN op.start_date.v ELSE 0,
                   op.end_date.v) # {}

\* the view's entry in a dict of the store is the same before and after
SameEntry(before, after, name) ==
    /\ (name \in DOMAIN before) = (name \in DOMAIN after)
    /\ name \in DOMAIN before => before[name] = after[name]

\* C14: a view with online = false is passed over.  No materialize call reads
\* its source or changes what the online store holds for it.
C14_OfflineSkipped ==
    [][MaterializeStep =>
          /\ OfflineStats.name \notin op'.pulled
          /\ SameEntry(features, features', OfflineStats.name)
          /\ SameEntry(timestamps, timestamps', OfflineStats.name)]_vars

\* C14's case: the offline view, which has records in the online store and
\* rows in its file, was named in a call that materialized another view
C14_Witness ==
    /\ op.kind \in {"materialize", "materialize_incremental"}
    /\ op.names = Some(<<"driver_stats", "offline_stats">>)
    /\ op.status = "ok"
    /\ "driver_stats" \in op.pulled
    /\ OfflineStats.name \in DOMAIN features
    /\ features[OfflineStats.name] # <<>>
    /\ "driver_stats" \in DOMAIN features

\* C15: materialize(start, end) writes a record for exactly the drivers with
\* a source row in [start, end], with the values of a latest row in the
\* window and stamped with end; the record of any other driver is left as it
\* was.
C15_MaterializeWindow ==
    [][(/\ nops' = nops + 1 /\ op'.kind = "materialize"
        /\ "driver_stats" \in op'.pulled) =>
          \A k \in 1..MaxKey :
              LET rows == InWindow(k, op'.start_date.v, op'.end_date.v)
                  was == Records(features, "driver_stats")
                  now == Records(features', "driver_stats")
              IN IF rows # {}
                 THEN /\ DriverKey(k) \in DOMAIN now
                      /\ \E i \in rows : Latest(i, rows) /\ now[DriverKey(k)] = ValuesOf(i)
                      /\ timestamps'["driver_stats"][DriverKey(k)] = op'.end_date.v
                 ELSE /\ (DriverKey(k) \in DOMAIN now) = (DriverKey(k) \in DOMAIN was)
                      /\ DriverKey(k) \in DOMAIN now =>
                            /\ now[DriverKey(k)] = was[DriverKey(k)]
                            /\ timestamps'["driver_stats"][DriverKey(k)]
                                  = timestamps["driver_stats"][DriverKey(k)]]_vars

\* C15's case: a driver has a row inside the window and a later row, of other
\* values, after it; the store holds the values of the row inside
C15_Witness ==
    /\ op.kind = "materialize" /\ op.status = "ok"
    /\ "driver_stats" \in op.pulled
    /\ \E k \in 1..MaxKey :
          \E i \in InWindow(k, op.start_date.v, op.end_date.v) :
             \E j \in InWindow(k, op.end_date.v + 1, MaxTime) :
                /\ ValuesOf(i) # ValuesOf(j)
                /\ DriverKey(k) \in DOMAIN Records(features, "driver_stats")
                /\ features["driver_stats"][DriverKey(k)] = ValuesOf(i)

\* the bounds of a pull, open ends as the ends of time
PullFrom == IF op.start_date.some THEN op.start_date.v ELSE 0
PullTo == IF op.end_date.some THEN op.end_date.v ELSE MaxTime

\* C16: a pull on a view with a timestamp field returns one row for each
\* driver that has rows in the date range, a latest row of that driver in the
\* range, and no other row.
C16_PullLatestPerKey ==
    (op.kind = "pull" /\ op.view = "driver_stats") =>
        /\ op.status = "ok"
        /\ \A k \in 1..MaxKey :
              LET mine == {r \in DOMAIN op.df.rows : op.df.rows[r].c["driver_id"] = IntV(k)}
                  rows == InWindow(k, PullFrom, PullTo)
              IN IF rows = {} THEN mine = {}
                 ELSE /\ Cardinality(mine) = 1
                      /\ \A r \in mine :
                            /\ Latest(op.df.rows[r].idx + 1, rows)
                            /\ op.df.rows[r].c = DriverFile.rows[op.df.rows[r].idx + 1].c

\* C16's case: a pull over a range that holds two rows of one driver
C16_Witness ==
    /\ op.kind = "pull" /\ op.view = "driver_stats" /\ op.status = "ok"
    /\ \E k \in 1..MaxKey : Cardinality(InWindow(k, PullFrom, PullTo)) >= 2
    /\ op.df.rows # <<>>

\* C17: a pull on a view without a timestamp field returns the source rows as
\* they are, with or without dates, and a materialize call on such a view
\* does not fail.
C17_NoTimestampField ==
    /\ (op.kind = "pull" /\ op.view = "pair_stats") =>
          op.status = "ok" /\ op.df = sources["pair_stats"]
    /\ (op.kind \in {"materialize", "materialize_incremental"}
        /\ op.names = Some(<<"pair_stats">>)) => op.status = "ok"

-----------------------------------------------------------------------------
(* FeatureStore.get_historical_features over several feature views *)

\* A second view on the drivers.  Its source declares a created-timestamp
\* column next to the event timestamp.
DriverTrips ==
    [name |-> "driver_trips",
     entities |-> <<[name |-> "driver_id", join_keys |-> <<"driver_id">>]>>,
     features |-> <<"trips">>,
     timestamp_field |-> "event_timestamp",
     created_timestamp_column |-> "created",
     online |-> TRUE]

\* the views applied to the registry of the historical queries
QueryRegistry == <<DriverStats, DriverTrips>>

\* SQLiteRegistry.get_feature_view on that registry
LookupView(name) ==
    IF \E i \in DOMAIN QueryRegistry : QueryRegistry[i].name = name
    THEN Some(QueryRegistry[CHOOSE i \in DOMAIN QueryRegistry : QueryRegistry[i].name = name])
    ELSE None

\* the outcome of a query: the frame, per joined view the source rows picked,
\* the views whose source was read, and where an error was raised
Answer(status, df, picked, read, raised_at) ==
    [status |-> status, df |-> df, picked |-> picked, read |-> read,
     raised_at |-> raised_at]

Failed(read, raised_at) ==
    Answer("ValueError", Frame(<<>>, <<>>), <<>>, read, raised_at)

RECURSIVE JoinViews(_, _, _, _, _, _)
\* OfflineStore.perform_point_in_time_join, the loop over feature_views: a
\* view with references has its source read and is joined to the result so
\* far unless nothing is left of its data
JoinViews(acc, views, edf, refs, srcs, jk) ==
    IF views = <<>> \/ acc.status # "ok" THEN acc
    ELSE LET fv == Head(views)
             names == RefsOf(refs, fv.name)
         IN IF names = <<>>
            THEN JoinViews(acc, Tail(views), edf, refs, srcs, jk)
            ELSE LET fv_df == GetFeatureViewData(srcs[fv.name], jk[fv.name], edf)
                     read == acc.read \cup {fv.name}
                     joined == IF Empty(fv_df) THEN Ok(acc.df, <<>>)
                               ELSE JoinFeatureView(acc.df, fv_df, fv, jk[fv.name], names)
                     next == IF joined.status = "ok"
                             THEN Answer("ok", joined.df,
                                         acc.picked @@ (fv.name :> joined.picked),
                                         read, "none")
                             ELSE Failed(read, "join")
                 IN JoinViews(next, Tail(views), edf, refs, srcs, jk)

\* ParquetOfflineStore.get_historical_features
OfflineGetHistoricalFeatures(edf, views, refs, srcs, jk) ==
    IF ~ValidateEntityDf(edf) THEN Failed({}, "validate_entity_df")
    ELSE IF ~ValidateFeatureViews(views, refs) THEN Failed({}, "validate_feature_views")
    ELSE JoinViews(Answer("ok", edf, <<>>, {}, "none"), views, edf, refs, srcs, jk)

\* the names of the views referenced
RefViewNames(refs) == {refs[i].feature_view_name : i \in DOMAIN refs}

\* FeatureStore.get_historical_features from the parsed references on.
\* fv_names is list(set(...)) of the referenced view names, in the order the
\* set happened to give.
StoreGetHistoricalFeatures(edf, fv_names, refs, srcs, jk) ==
    IF \E i \in DOMAIN fv_names : ~LookupView(fv_names[i]).some
    THEN Failed({}, "registry")
    ELSE OfflineGetHistoricalFeatures(
             edf, [i \in DOMAIN fv_names |-> LookupView(fv_names[i]).v], refs, srcs, jk)

-----------------------------------------------------------------------------
(* SpecQuery: one historical query over two views *)

TripsCols == <<"driver_id", "trips", "event_timestamp", "created">>

TripsCells ==
    {[c \in Range(TripsCols) |->
        CASE c = "driver_id" -> IntV(k)
          [] c = "trips" -> FloatV(x)
          [] c = "event_timestamp" -> TimeV(t)
          [] OTHER -> TimeV(cr)] :
        k \in 1..MaxKey, x \in 1..MaxVal, t \in 1..MaxTime, cr \in 1..MaxTime}

TripsFiles == {FrameOfCells(TripsCols, cells) : cells \in SeqsUpTo(TripsCells, MaxSrcRows)}

\* a driver_stats file written without the join-key column
KeylessCols == <<"conv_rate", "acc_rate", "event_timestamp">>

KeylessFile ==
    FrameOfCells(KeylessCols,
                 <<[c \in Range(KeylessCols) |->
                      CASE c = "conv_rate" -> FloatV(1)
                        [] c = "acc_rate" -> FloatV(1 + MaxVal)
                        [] OTHER -> TimeV(1)]>>)

\* the driver_stats file of the queries: empty, one row of one driver, or a
\* row without the join-key column
StatsFiles ==
    {FrameOfCells(SourceCols, cells) :
        cells \in SeqsUpTo({c \in SourceCells : c["conv_rate"] = FloatV(1)
                                                /\ c["event_timestamp"] = TimeV(1)}, 1)}
    \cup {KeylessFile}

\* entity frames: key and as-of timestamp (possibly without rows), or one row
\* of a frame that lacks the join key
QueryEntityFrames ==
    {FrameOfCells(<<"driver_id", "event_timestamp">>, cells) :
        cells \in SeqsUpTo({[c \in {"driver_id", "event_timestamp"} |->
                               IF c = "driver_id" THEN IntV(k) ELSE TimeV(t)] :
                             k \in 1..MaxKey, t \in 1..MaxTime}, MaxEntRows)}
    \cup
    {FrameOfCells(<<"event_timestamp">>, <<[c \in {"event_timestamp"} |-> TimeV(t)]>>) :
        t \in 1..MaxTime}

\* feature references over both views, and references to a view or a feature
\* that does not exist
QueryRefLists ==
    {<<Ref("driver_trips", "trips")>>,
     <<Ref("driver_trips", "trips"), Ref("driver_stats", "conv_rate")>>,
     <<Ref("driver_stats", "conv_rate"), Ref("driver_trips", "trips")>>,
     <<Ref("driver_stats", "acc_rate"), Ref("driver_trips", "trips"),
       Ref("driver_stats", "conv_rate")>>,
     <<Ref("driver_trips", "trips"), Ref("unknown", "trips")>>,
     <<Ref("driver_trips", "missing")>>,
     <<Ref("driver_stats", "conv_rate"), Ref("driver_trips", "created")>>}

\* the feature_views lists a caller of the offline store may pass
ViewLists ==
    {<<DriverStats>>, <<DriverTrips>>,
     <<DriverStats, DriverTrips>>, <<DriverTrips, DriverStats>>}

QueryInit ==
    /\ source = Frame(SourceCols, <<>>)
    /\ \E stats \in StatsFiles, trips \in TripsFiles :
          sources = [n \in {"driver_stats", "driver_trips"} |->
                        IF n = "driver_stats" THEN stats ELSE trips]
    /\ entity_df \in QueryEntityFrames
    /\ feature_refs \in QueryRefLists
    /\ hist = NotCalled
    /\ StoreInit /\ IdleSeq /\ IdleConc

QueryFrame == <<source, sources, entity_df, feature_refs, storeVars, seqVars, concVars>>

\* the join keys get_join_keys returns for each view
JoinKeyChoices ==
    {[n \in {"driver_stats", "driver_trips"} |-> IF n = "driver_stats" THEN a ELSE b] :
        a \in GetJoinKeys(DriverStats), b \in GetJoinKeys(DriverTrips)}

\* FeatureStore.get_historical_features(entity_df, features)
StoreQuery ==
    /\ hist.status = "none"
    /\ \E fv_names \in Perms(RefViewNames(feature_refs)) :
          \E jk \in JoinKeyChoices :
             hist' = StoreGetHistoricalFeatures(entity_df, fv_names, feature_refs, sources, jk)
                     @@ [call |-> "store", supplied |-> {QueryRegistry[i].name : i \in DOMAIN QueryRegistry},
                         order |-> fv_names]
    /\ UNCHANGED QueryFrame

\* ParquetOfflineStore.get_historical_features(entity_df, feature_views, feature_refs)
OfflineQuery(views) ==
    /\ hist.status = "none"
    /\ \E jk \in JoinKeyChoices :
          hist' = OfflineGetHistoricalFeatures(entity_df, views, feature_refs, sources, jk)
                  @@ [call |-> "offline", supplied |-> {views[i].name : i \in DOMAIN views},
                      order |-> [i \in DOMAIN views |-> views[i].name]]
    /\ UNCHANGED QueryFrame

QueryNext ==
    \/ StoreQuery
    \/ \E views \in ViewLists : OfflineQuery(views)

SpecQuery == QueryInit /\ [][QueryNext]_vars

-----------------------------------------------------------------------------
(* Claims about queries over several views *)

TripsFile == sources["driver_trips"]

\* the query joined driver_trips point in time
TripsJoined ==
    /\ hist.status = "ok"
    /\ HasCol(entity_df, DriverTrips.timestamp_field)
    /\ "driver_trips" \in DOMAIN hist.picked
    /\ Len(hist.picked["driver_trips"]) = Len(entity_df.rows)

\* the rows of the trips file that match entity row i: same driver, at or
\* before its as-of timestamp
TripsMatching(i) ==
    {r \in DOMAIN TripsFile.rows :
        /\ PyEq(TripsFile.rows[r].c["driver_id"], entity_df.rows[i].c["driver_id"])
        /\ TripsFile.rows[r].c["event_timestamp"].n
              <= entity_df.rows[i].c["event_timestamp"].n}

\* the rows of S with the greatest value in column col
Greatest(S, col) ==
    {r \in S : \A q \in S : TripsFile.rows[q].c[col].n <= TripsFile.rows[r].c[col].n}

\* C18: when several matching rows of an entity share the greatest timestamp
\* at or before the as-of timestamp, the row selected is one with the most
\* recent created timestamp among them.
C18_CreatedTieBreak ==
    TripsJoined =>
        \A i \in DOMAIN entity_df.rows :
            LET top == Greatest(TripsMatching(i), DriverTrips.timestamp_field)
            IN Cardinality(top) >= 2 =>
                  hist.picked["driver_trips"][i] + 1
                      \in Greatest(top, DriverTrips.created_timestamp_column)

RECURSIVE FirstReferenced(_, _)
\* the view names in the order the references first name them
FirstReferenced(refs, seen) ==
    IF refs = <<>> THEN <<>>
    ELSE IF Head(refs).feature_view_name \in seen
         THEN FirstReferenced(Tail(refs), seen)
         ELSE <<Head(refs).feature_view_name>>
              \o FirstReferenced(Tail(refs), seen \cup {Head(refs).feature_view_name})

\* the requested features, grouped by view in the order of first reference
RequestedCols(refs) ==
    LET order == FirstReferenced(refs, {})
    IN Flatten([i \in DOMAIN order |-> RefsOf(refs, order[i])])

\* C19: the output columns are the entity-frame columns in their order, then
\* the requested features grouped by view in the order the views were first
\* referenced, and nothing else.
C19_ColumnOrder ==
    (hist.status = "ok" /\ hist.call \in {"store", "offline"}) =>
        hist.df.cols = entity_df.cols \o RequestedCols(feature_refs)

\* some reference names a view that was not supplied, or a feature its view
\* does not have
RefInvalid ==
    \E i \in DOMAIN feature_refs :
        \/ feature_refs[i].feature_view_name \notin hist.supplied
        \/ /\ LookupView(feature_refs[i].feature_view_name).some
           /\ feature_refs[i].feature_name
                 \notin Range(GetFeatureNames(LookupView(feature_refs[i].feature_view_name).v))

Validation == {"registry", "validate_entity_df", "validate_feature_views"}

\* C20: a query with an empty entity frame, a reference to a view that was
\* not supplied, or a reference to a feature its view does not have fails in
\* validation before any source is read; any other query does not fail in
\* validation.
C20_ValidatesBeforeReading ==
    hist.status # "none" =>
        IF Empty(entity_df) \/ RefInvalid
        THEN /\ hist.status = "ValueError"
             /\ hist.raised_at \in Validation
             /\ hist.read = {}
        ELSE hist.raised_at \notin Validation

\* C20's case: a query with valid references and an empty entity frame, on
\* sources that hold rows
C20_Witness ==
    /\ hist.status = "ValueError"
    /\ hist.raised_at = "validate_entity_df"
    /\ ~RefInvalid
    /\ TripsFile.rows # <<>>
    /\ sources["driver_stats"].rows # <<>>

\* a referenced view of the registry has a join key that the entity frame
\* or the view's source file lacks
JoinKeyMissing ==
    \E i \in DOMAIN feature_refs :
        LET fv == LookupView(feature_refs[i].feature_view_name)
        IN /\ fv.some
           /\ \E k \in JoinKeySet(fv.v) :
                 ~HasCol(entity_df, k) \/ ~HasCol(sources[fv.v.name], k)

\* C21: a query on a view with a join key missing from the entity frame or
\* from the view's source fails; it never returns a result.
C21_MissingJoinKeyFails ==
    (hist.status # "none" /\ JoinKeyMissing) => hist.status = "ValueError"

-----------------------------------------------------------------------------
(* FeatureService: resolution and validation *)

\* A Python str is a sequence of one-character strings here, so that
\* formatting and splitting are computed and not assumed.
Colon == ":"
Chars == {"a", Colon}

HasColon(str) == \E i \in DOMAIN str : str[i] = Colon

\* str.split(":", 1) of a string that holds a colon
SplitFirst(str) ==
    LET at == CHOOSE i \in DOMAIN str :
                 str[i] = Colon /\ \A j \in 1..(i - 1) : str[j] # Colon
    IN <<SubSeq(str, 1, at - 1), SubSeq(str, at + 1, Len(str))>>

\* FeatureReference.__str__
RefStr(ref) == ref.feature_view_name \o <<Colon>> \o ref.feature_name

\* the references themselves in place of their strings
RefItself(ref) == ref

\* what validate compares to find duplicates
RefIdentity(ref) == RefStr(ref)

\* the three kinds of member of a service
\* (one record shape for all three; only the field of its type is used)
NoView == [name |-> <<>>, features |-> <<>>]
ViewMember(fv) == [type |-> "FeatureView", fv |-> fv, ref |-> Ref(<<>>, <<>>), str |-> <<>>]
RefMember(ref) == [type |-> "FeatureReference", fv |-> NoView, ref |-> ref, str |-> <<>>]
StrMember(str) == [type |-> "str", fv |-> NoView, ref |-> Ref(<<>>, <<>>), str |-> str]

SvcOk(refs) == [status |-> "ok", reason |-> "none", references |-> refs]
SvcRaised(reason) == [status |-> "ValueError", reason |-> reason, references |-> <<>>]

RECURSIVE GetFeatureReferences(_)
\* FeatureService.get_feature_references
GetFeatureReferences(members) ==
    IF members = <<>> THEN SvcOk(<<>>)
    ELSE LET m == Head(members)
             mine == CASE m.type = "FeatureView" ->
                            SvcOk([i \in DOMAIN GetFeatureNames(m.fv) |->
                                      Ref(m.fv.name, GetFeatureNames(m.fv)[i])])
                       [] m.type = "FeatureReference" -> SvcOk(<<m.ref>>)
                       [] OTHER ->
                            IF HasColon(m.str)
                            THEN SvcOk(<<Ref(SplitFirst(m.str)[1], SplitFirst(m.str)[2])>>)
                            ELSE SvcRaised("format")
             rest == GetFeatureReferences(Tail(members))
         IN IF mine.status # "ok" THEN mine
            ELSE IF rest.status # "ok" THEN rest
            ELSE SvcOk(mine.references \o rest.references)

Distinct(seq) == \A i, j \in DOMAIN seq : seq[i] = seq[j] => i = j

\* FeatureView.validate, for a view whose entities and source are valid
ViewValid(fv) ==
    /\ fv.name # <<>>
    /\ fv.features # <<>>
    /\ \A i \in DOMAIN fv.features : fv.features[i] # <<>>
    /\ Distinct(fv.features)

\* the per-member checks of FeatureService.validate
MemberValid(m) ==
    CASE m.type = "FeatureView" -> ViewValid(m.fv)
      [] m.type = "FeatureReference" ->
            m.ref.feature_view_name # <<>> /\ m.ref.feature_name # <<>>
      [] OTHER -> m.str # <<>> /\ HasColon(m.str)

\* FeatureService.validate
ValidateService(name, members) ==
    IF name = <<>> THEN SvcRaised("name")
    ELSE IF members = <<>> THEN SvcRaised("no_features")
    ELSE IF \E i \in DOMAIN members : ~MemberValid(members[i]) THEN SvcRaised("member")
    ELSE LET resolved == GetFeatureReferences(members)
         IN IF resolved.status # "ok" THEN resolved
            ELSE IF ~Distinct([i \in DOMAIN resolved.references |->
                                  RefIdentity(resolved.references[i])])
                 THEN SvcRaised("duplicate")
                 ELSE SvcOk(resolved.references)

-----------------------------------------------------------------------------
(* SpecService: one call on a feature service *)

\* view and feature names: up to MaxNameLen characters, the colon among them
Names == SeqsUpTo(Chars, MaxNameLen)

\* views given as members: two valid ones and one that repeats a feature
MemberViews ==
    {[name |-> <<"a">>, features |-> <<<<"a">>, <<"a", "a">>>>],
     [name |-> <<"a", "a">>, features |-> <<<<"a">>>>],
     [name |-> <<"a">>, features |-> <<<<"a">>, <<"a">>>>]}

Members ==
    {ViewMember(fv) : fv \in MemberViews}
    \cup {RefMember(Ref(v, f)) : v \in Names, f \in Names}
    \cup {StrMember(str) : str \in Names}

MemberLists == SeqsUpTo(Members, MaxMembers)

ServiceNames == {<<>>, <<"a">>}

ServiceInit ==
    /\ IdleHist
    /\ StoreInit /\ IdleSeq /\ IdleConc

ServiceFrame == <<histVars, storeVars, clock, written, nops, concVars>>

\* service.get_feature_references()
ResolveCall ==
    /\ op.kind = "none"
    /\ \E name \in ServiceNames, members \in MemberLists :
          op' = [kind |-> "get_feature_references", name |-> name, members |-> members,
                 result |-> GetFeatureReferences(members)]
    /\ UNCHANGED ServiceFrame

\* service.validate()
ValidateCall ==
    /\ op.kind = "none"
    /\ \E name \in ServiceNames, members \in MemberLists :
          op' = [kind |-> "validate", name |-> name, members |-> members,
                 result |-> ValidateService(name, members)]
    /\ UNCHANGED ServiceFrame

ServiceNext ==
    \/ ResolveCall
    \/ ValidateCall

SpecService == ServiceInit /\ [][ServiceNext]_vars

\* a validate call on a service that passes the checks of its name and of
\* each member
ValidatedMembers ==
    /\ op.kind = "validate"
    /\ op.name # <<>> /\ op.members # <<>>
    /\ \A i \in DOMAIN op.members : MemberValid(op.members[i])

\* C22: validation fails with the duplicate-reference error when the resolved
\* references hold the same (view, feature) pair twice, and passes when all
\* the pairs are distinct.
C22_DuplicatePairs ==
    ValidatedMembers =>
        IF Distinct(GetFeatureReferences(op.members).references)
        THEN op.result.status = "ok"
        ELSE op.result.status = "ValueError" /\ op.result.reason = "duplicate"

-----------------------------------------------------------------------------
(* ParquetOfflineStore.offline_write_batch *)

\* datetime.now().strftime("%Y%m%d_%H%M%S"): the time cut to whole seconds
Strftime(now) == now \div TicksPerSecond

\* a timestamp that does not depend on the time of the call
NoStamp(now) == 0

\* the timestamp in the paths of a batch write
BatchStamp(now) == Strftime(now)

\* f"{batch_dir}/batch_features_{timestamp}.parquet"
BatchPath(view, timestamp) ==
    [dir |-> view, timestamp |-> timestamp, chunk |-> -1]

\* f"{batch_dir}/batch_features_{timestamp}_chunk_{i // chunk_size}.parquet"
ChunkPath(view, timestamp, i) ==
    [dir |-> view, timestamp |-> timestamp, chunk |-> i \div ChunkSize]

Min(a, b) == IF a < b THEN a ELSE b

\* df.iloc[i : i + chunk_size]
Iloc(df, i) == SubSeq(df, i + 1, Min(i + ChunkSize, Len(df)))

\* range(0, len(df), chunk_size)
ChunkStarts(df) ==
    [c \in 1..((Len(df) + ChunkSize - 1) \div ChunkSize) |-> (c - 1) * ChunkSize]

\* the files a batch write sets out to write, in order: path and rows
BatchFiles(view, df, now) ==
    IF Len(df) > ChunkSize
    THEN [c \in DOMAIN ChunkStarts(df) |->
             [path |-> ChunkPath(view, BatchStamp(now), ChunkStarts(df)[c]),
              rows |-> Iloc(df, ChunkStarts(df)[c]),
              upto |-> ChunkStarts(df)[c] + Len(Iloc(df, ChunkStarts(df)[c]))]]
    ELSE <<[path |-> BatchPath(view, BatchStamp(now)), rows |-> df, upto |-> Len(df)]>>

RECURSIVE ToParquet(_, _)
\* the files on disk after the given files are written, one after the other
ToParquet(disk, files) ==
    IF files = <<>> THEN disk
    ELSE ToParquet(Put(disk, Head(files).path, Head(files).rows), Tail(files))

\* offline_write_batch where to_parquet raises after `landed` files are
\* written (never, when landed is the number of files): the files on disk,
\* and what the progress callback was told
OfflineWriteBatch(disk, view, df, now, landed) ==
    LET files == BatchFiles(view, df, now)
        done == SubSeq(files, 1, landed)
    IN [disk |-> ToParquet(disk, done),
        status |-> IF landed = Len(files) THEN "ok" ELSE "OSError",
        paths |-> [c \in DOMAIN done |-> done[c].path],
        progress |-> [c \in DOMAIN done |-> <<done[c].upto, Len(df)>>]]

-----------------------------------------------------------------------------
(* SpecBatch: batch writes for one view, and the time passing *)

\* the batches submitted: rows 1..n
Batches == {[i \in 1..n |-> i] : n \in 0..MaxBatchRows}

BatchInit ==
    /\ source = Frame(SourceCols, <<>>)
    /\ entity_df = Frame(<<"driver_id">>, <<>>)
    /\ feature_refs = <<>>
    /\ hist = NotCalled
    /\ sources = <<>>
    /\ StoreInit /\ IdleSeq /\ IdleConc

\* offline_write_batch(driver_stats, df)
WriteBatch ==
    /\ nops < MaxBatchCalls
    /\ nops' = nops + 1
    /\ \E df \in Batches :
          \E landed \in 0..Len(BatchFiles(DriverStats.name, df, clock)) :
             LET out == OfflineWriteBatch(sources, DriverStats.name, df, clock, landed)
             IN /\ sources' = out.disk
                /\ op' = [kind |-> "offline_write_batch", df |-> df, status |-> out.status,
                          paths |-> out.paths, progress |-> out.progress]
    /\ UNCHANGED <<source, entity_df, feature_refs, hist, storeVars, clock, written, concVars>>

\* time passes between calls
Elapse ==
    /\ clock < MaxTicks
    /\ clock' = clock + 1
    /\ UNCHANGED <<histVars, storeVars, op, written, nops, concVars>>

BatchNext ==
    \/ WriteBatch
    \/ Elapse

SpecBatch == BatchInit /\ [][BatchNext]_vars

\* a batch write failed and the same batch is submitted again and lands
Resubmits ==
    /\ nops' = nops + 1
    /\ op.kind = "offline_write_batch" /\ op.status = "OSError"
    /\ op'.kind = "offline_write_batch" /\ op'.status = "ok"
    /\ op'.df = op.df

\* the files under the view's directory that hold the rows of chunk number c
\* of batch df
CopiesOf(disk, df, c) ==
    {p \in DOMAIN disk : p.dir = DriverStats.name /\ p.chunk = c
                         /\ disk[p] = Iloc(df, c * ChunkSize)}

\* C24: the retry of a failed batch writes each chunk to the path the first
\* attempt used for it, so that one copy of every chunk is left.
C24_RetryOverwrites ==
    [][Resubmits =>
          /\ \A c \in DOMAIN op.paths : op'.paths[c] = op.paths[c]
          /\ \A c \in DOMAIN op'.paths :
                op'.paths[c].chunk >= 0 =>
                    Cardinality(CopiesOf(sources', op'.df, op'.paths[c].chunk)) = 1]_vars

-----------------------------------------------------------------------------
(* SpecViews: the online store with two views on the same entity, and with  *)
(* frames that lack a column                                                *)

\* two views whose entity keys are the same strings
TwinViews == {DriverStats, OfflineStats}

\* a frame without the named column
Without(df, col) == Project(df, SelectSeq(df.cols, LAMBDA c : c # col))

\* the frames written: no row or one row, and one-row frames that lack the
\* join key, the timestamp column or a feature
TwinFrames ==
    LET whole == {FrameOfCells(SourceCols, cells) : cells \in SeqsUpTo(DriverCells, 1)}
    IN whole \cup {Without(OfflineFrame, col) :
                      col \in {"driver_id", "event_timestamp", "acc_rate"}}

ViewsInit ==
    /\ StoreInit
    /\ clock = 1
    /\ op = [kind |-> "none"]
    /\ written = [n \in {fv.name : fv \in TwinViews} |-> NeverWritten]
    /\ nops = 0
    /\ IdleHist /\ IdleConc

ViewsNext ==
    \/ \E fv \in TwinViews : \E df \in TwinFrames, timestamp \in TimestampArgs :
          Write(fv, df, timestamp)
    \/ \E fv \in TwinViews : Delete(fv)
    \/ TeardownCall
    \/ Tick

SpecViews == ViewsInit /\ [][ViewsNext]_vars

OtherViews(name) == {fv.name : fv \in TwinViews} \ {name}

\* C25: a write or a delete on one view leaves the records and the write
\* timestamps of every other view as they were.
C25_ViewsIndependent ==
    [][(nops' = nops + 1 /\ op'.kind \in {"write", "delete"}) =>
          \A other \in OtherViews(op'.view) :
              /\ SameEntry(features, features', other)
              /\ SameEntry(timestamps, timestamps', other)]_vars

\* C25's case: a view was deleted while the other view holds a record
\* written under the same join-key values
C25_Witness ==
    /\ op.kind = "delete"
    /\ written[op.view].state = "deleted"
    /\ \E other \in OtherViews(op.view) :
          /\ other \in DOMAIN features /\ features[other] # <<>>
          /\ written[other].state = "live"
          /\ DOMAIN written[other].rows \cap DOMAIN written[op.view].rows # {}

\* the columns validate_feature_data looks for
RequiredCols(fv) ==
    JoinKeySet(fv) \cup Range(GetFeatureNames(fv))
    \cup (IF fv.timestamp_field # NoField THEN {fv.timestamp_field} ELSE {})

\* C29: a write whose frame lacks a join key, the timestamp column or a
\* feature column raises and leaves the store as it was: no record, no
\* timestamp and no entry for the view is added or changed.
C29_FailedWriteNoEffect ==
    [][(/\ nops' = nops + 1 /\ op'.kind = "write"
        /\ \E fv \in TwinViews :
              fv.name = op'.view /\ \E col \in RequiredCols(fv) : ~HasCol(op'.df, col)) =>
          /\ op'.status = "ValueError"
          /\ features' = features
          /\ timestamps' = timestamps]_vars

\* C29's case: a frame with its join key and features but without the
\* timestamp column was written to a view that has no entry yet, while the
\* other view holds a record
C29_Witness ==
    /\ op.kind = "write" /\ op.status = "ValueError"
    /\ ~HasCol(op.df, "event_timestamp") /\ HasCol(op.df, "driver_id")
    /\ op.view \notin DOMAIN features
    /\ \E other \in OtherViews(op.view) :
          other \in DOMAIN features /\ features[other] # <<>>

-----------------------------------------------------------------------------
(* SpecKey: the online store of a two-key view whose join-key values are    *)
(* ints and strs                                                            *)

\* the join-key values: the int 1, the str "1" and the str "1|b=1"
KeyValues == {IntV(1)} \cup {StrV(k) : k \in DOMAIN StrTable}

KeyCells ==
    {[c \in {"a", "b", "f1", "f2"} |->
        CASE c = "a" -> va
          [] c = "b" -> vb
          [] c = "f1" -> IntV(x)
          [] OTHER -> IntV(x + MaxVal)] :
     va \in KeyValues, vb \in KeyValues, x \in 1..MaxVal}

KeyFrames == {FrameOfCells(<<"a", "b", "f1", "f2">>, <<cells>>) : cells \in KeyCells}

KeyEntityRowLists ==
    {<<Dict(<<"a", "b">>, [c \in {"a", "b"} |-> IF c = "a" THEN va ELSE vb])>> :
       va \in KeyValues, vb \in KeyValues}

KeyInit ==
    /\ StoreInit
    /\ clock = 1
    /\ op = [kind |-> "none"]
    /\ written = [n \in {PairStats.name} |-> NeverWritten]
    /\ nops = 0
    /\ IdleHist /\ IdleConc

KeyNext ==
    \/ \E df \in KeyFrames : Write(PairStats, df, None)
    \/ \E entity_rows \in KeyEntityRowLists : Read(PairStats, entity_rows, None)
    \/ Delete(PairStats)

SpecKey == KeyInit /\ [][KeyNext]_vars

\* the join-key values of an entity row
KeyValuesOf(c) == [k \in JoinKeySet(PairStats) |-> c[k]]

\* C26: entities that differ in a join-key value have different entity keys:
\* every entity written since the last delete is stored with the values last
\* written for it, and a read returns for each entity row the values last
\* written for that very entity, or nulls when it was never written.
C26_KeysInjective ==
    LET name == PairStats.name
        live == written[name].state = "live"
        last == written[name].rows
    IN /\ live =>
             \A kv \in DOMAIN last :
                 \A join_keys \in GetJoinKeys(PairStats) :
                    LET key == CreateEntityKey(kv, join_keys)
                    IN /\ key \in DOMAIN features[name]
                       /\ \A f \in Range(PairStats.features) :
                             features[name][key][f] = last[kv][f]
       /\ (live /\ op.kind = "read" /\ op.status = "ok") =>
             \A i \in DOMAIN op.df.rows :
                 LET kv == KeyValuesOf(op.entity_rows[i].c)
                 IN \A f \in Range(PairStats.features) :
                       op.df.rows[i].c[f] =
                          IF kv \in DOMAIN last THEN last[kv][f] ELSE Null

-----------------------------------------------------------------------------
(* SpecRuns: a sequence of materialize / materialize_incremental runs over  *)
(* one source file, with the list of the runs made (written)                *)

\* the names a run is given: the view, or none (every applied view)
RunNameArgs == {Some(<<"driver_stats">>), None}

RunsInit ==
    /\ sources \in {SourcesOf(f) : f \in MatSources}
    /\ StoreInit
    /\ clock = 1
    /\ op = [kind |-> "none"]
    /\ written = <<>>
    /\ nops = 0
    /\ IdleConc
    /\ source = Frame(SourceCols, <<>>)
    /\ entity_df = Frame(<<"driver_id">>, <<>>)
    /\ feature_refs = <<>>
    /\ hist = NotCalled

RunsFrame == <<source, entity_df, feature_refs, hist, sources, clock, concVars>>

\* the run as the list keeps it: its window and whether it read the file of
\* driver_stats
RunOf(start_date, end_date, m) ==
    [from |-> IF start_date.some THEN start_date.v ELSE 0,
     to |-> end_date.v,
     pulled |-> "driver_stats" \in m.pulled]

\* one FeatureStore.materialize_incremental run
RunIncremental(end_date, names) ==
    /\ nops < MaxRuns
    /\ nops' = nops + 1
    /\ \E m \in MaterializeOutcomes(Current, sources, None, end_date.v, names, clock) :
          /\ Becomes(m.st)
          /\ op' = [kind |-> "materialize_incremental", names |-> names,
                    start_date |-> None, end_date |-> end_date,
                    status |-> m.status, pulled |-> m.pulled]
          /\ written' = Append(written, RunOf(None, end_date, m))
    /\ UNCHANGED RunsFrame

\* one FeatureStore.materialize run
RunWindow(start_date, end_date, names) ==
    /\ nops < MaxRuns
    /\ nops' = nops + 1
    /\ \E m \in MaterializeOutcomes(Current, sources, start_date, end_date.v, names, clock) :
          /\ Becomes(m.st)
          /\ op' = [kind |-> "materialize", names |-> names,
                    start_date |-> start_date, end_date |-> end_date,
                    status |-> m.status, pulled |-> m.pulled]
          /\ written' = Append(written, RunOf(start_date, end_date, m))
    /\ UNCHANGED RunsFrame

RunsNext ==
    \/ \E end_date \in Dates, names \in RunNameArgs : RunIncremental(end_date, names)
    \/ \E start_date \in Dates, end_date \in Dates, names \in RunNameArgs :
          RunWindow(start_date, end_date, names)

SpecRuns == RunsInit /\ [][RunsNext]_vars

\* the rows of driver k in the snapshot run r pulled
Snapshot(k, r) ==
    IF written[r].pulled THEN InWindow(k, written[r].from, written[r].to) ELSE {}

\* the runs whose snapshot held a row of driver k
RunsWith(k) == {r \in DOMAIN written : Snapshot(k, r) # {}}

LastRun(S) == CHOOSE r \in S : \A q \in S : q <= r

\* C27: after any sequence of runs, the record and the write timestamp of
\* each driver are those of the last run whose snapshot held the driver: the
\* values of a latest row of that snapshot, stamped with that run's end
\* date, whatever later runs without the driver did and whatever the end
\* dates of the earlier runs were; a driver no snapshot held has no record.
C27_LastRunWins ==
    \A k \in 1..MaxKey :
        LET stored == Records(features, "driver_stats")
        IN IF RunsWith(k) = {} THEN DriverKey(k) \notin DOMAIN stored
           ELSE LET r == LastRun(RunsWith(k))
                IN /\ DriverKey(k) \in DOMAIN stored
                   /\ \E i \in Snapshot(k, r) :
                         Latest(i, Snapshot(k, r)) /\ stored[DriverKey(k)] = ValuesOf(i)
                   /\ timestamps["driver_stats"][DriverKey(k)] = written[r].to

\* C27's case: the last run ended earlier than a run before it, both
\* snapshots held the driver, and the record went from the values the
\* earlier run wrote back to older ones
C27_Witness ==
    /\ Len(written) >= 2
    /\ \E k \in 1..MaxKey :
          LET r == Len(written)
          IN \E q \in 1..(r - 1) :
                /\ written[r].to < written[q].to
                /\ Snapshot(k, r) # {} /\ Snapshot(k, q) # {}
                /\ \A n \in (q + 1)..(r - 1) : Snapshot(k, n) = {}
                /\ \A i \in Snapshot(k, q) :
                      Latest(i, Snapshot(k, q)) =>
                         ValuesOf(i) # features["driver_stats"][DriverKey(k)]
                /\ timestamps["driver_stats"][DriverKey(k)] = written[r].to

-----------------------------------------------------------------------------
(* Row preservation of the historical join (SpecHist) *)

\* the result has the entity frame's rows, one for one and in its order
RowsPreserved ==
    /\ Len(hist.df.rows) = Len(entity_df.rows)
    /\ \A i \in DOMAIN entity_df.rows :
          \A col \in Range(entity_df.cols) :
             hist.df.rows[i].c[col] = entity_df.rows[i].c[col]

\* C28: a historical query that returns has exactly one row per entity-frame
\* row, in entity-frame order, whatever the source holds and whether or not
\* the entity frame carries the view's timestamp field.
C28_RowPreservation == hist.status = "ok" => RowsPreserved

\* the same, for entity frames that carry the view's timestamp field
RowPreservationAsOf == HistAnswered => RowsPreserved

=============================================================================
